---- MODULE Spec2Model ----
(***************************************************************************)
(* Ticket field-locking, inventory reconciliation and event lifecycle of   *)
(* the shababco-api admin backend.  The remote catalog (Shopify) holds one *)
(* product (the event) and its variants (the tickets); the handlers of     *)
(* app/api/routes/tickets.py and app/api/routes/events.py read it through  *)
(* app/integrations/shopify and write it back.                             *)
(***************************************************************************)
EXTENDS Integers, FiniteSets, Sequences, TLC

\* ---------------------------------------------------------------- bounds
\* largest inventory quantity (declared capacity, live available, requests)
MaxQty == 3
\* largest ticket price
MaxPrice == 1
\* largest number of fields one update_ticket request carries
MaxFields == 2

VARIABLES
    product,    \* the remote product: exists, status, is_featured metafield
    variants,   \* the remote variants of the product, by variant id
    last,       \* the last request handled and the response it produced
    REDIS_AVAILABLE,    \* whether the cache store answered the ping at import
    redis_client,       \* the entries of the cache store, by key
    settings,           \* the configuration read at start-up
    deliveries,         \* the webhook deliveries: inputs, position, response
    processed_webhook,  \* the webhook ids of the processed_webhook table
    listing,            \* the fetch-all-pages loop of a listing request
    roundtrip,          \* a remote product, its projection and what is written back
    tasks               \* the requests in progress: operation, position, what was read

vars == <<product, variants, last, REDIS_AVAILABLE, redis_client, settings,
          deliveries, processed_webhook, listing, roundtrip, tasks>>

\* ---------------------------------------------------------------- helpers
VariantIds == {"t1", "t2"}

\* dict.get(key, default)
Get(d, k, default) == IF k \in DOMAIN d THEN d[k] ELSE default

\* the one event the model follows
EventId == "E"

\* None, and a value that is not None
None == << >>
Some(v) == <<v>>

\* dict.get(key)
Opt(d, key) == IF key \in DOMAIN d THEN Some(d[key]) ELSE None

\* str(bool).lower()
BoolStr(b) == IF b THEN "true" ELSE "false"

\* int(value) of a number_integer metafield value
ParseInt(s) == CHOOSE i \in 0..(MaxQty + 1) : ToString(i) = s

RECURSIVE SumOver(_, _)
SumOver(f, S) ==
    IF S = {} THEN 0
    ELSE LET x == CHOOSE y \in S : TRUE IN f[x] + SumOver(f, S \ {x})

\* ---------------------------------------------------------------- schemas
\* TicketUpdate: every field optional
TicketUpdateFields ==
    {"ticket_name", "ticket_type", "description", "features", "is_visible",
     "price", "compare_at_price", "inventory_quantity", "max_per_order"}

\* model_dump(exclude_none=True) of a TicketUpdate: the fields present, and
\* the values of the three fields whose value matters to the handlers
\* (inventory_quantity: int ge=0, price: ge=0, is_visible: bool); a field
\* that is not present carries a fixed filler value
TicketUpdate ==
    { u \in [fields : SUBSET TicketUpdateFields, inventory_quantity : 0..MaxQty,
             price : 0..MaxPrice, is_visible : BOOLEAN] :
        /\ Cardinality(u.fields) <= MaxFields
        /\ ("inventory_quantity" \notin u.fields => u.inventory_quantity = 0)
        /\ ("price" \notin u.fields => u.price = 0)
        /\ ("is_visible" \notin u.fields => u.is_visible = TRUE) }

\* TicketType: the values a ticket_type may take
TicketType == {"early_bird", "regular", "vip", "student", "group"}

\* str(value) of the TicketType member a TicketUpdate carries: the member's
\* qualified name, not its value
StrTicketType == "TicketType.REGULAR"

\* locked_fields with its last entry left out
locked_fields_short ==
    <<"ticket_name", "ticket_type", "description", "features", "compare_at_price">>

\* locked_fields of update_ticket, in dict order
locked_fields ==
    <<"ticket_name", "ticket_type", "description", "features",
      "compare_at_price", "max_per_order">>

\* ShababcoEvent(**product): the response schema; a field the product does
\* not carry takes its default
ShababcoEvent(event) ==
    [field \in DOMAIN event \cup {"is_featured"} |->
        IF field \in DOMAIN event THEN event[field] ELSE FALSE]

\* ---------------------------------------------------------------- remote
\* _parse_variant_metafields: typed values of the metafields that are set
_parse_variant_metafields(metafields_data) ==
    [key \in DOMAIN metafields_data |->
        IF key = "is_visible" THEN metafields_data[key] = "true"
        ELSE IF key = "inventory_quantity" THEN ParseInt(metafields_data[key])
        ELSE metafields_data[key]]

\* sold = max(0, capacity - available), without the floor
SoldNoFloor(capacity, available) == capacity - available

\* sold = max(0, capacity - available)
Sold(capacity, available) ==
    IF capacity - available > 0 THEN capacity - available ELSE 0

\* capacity, with the declared capacity taken whatever its value
CapacityAlwaysDeclared(metafield_capacity, available) == metafield_capacity

\* capacity = metafield_capacity if metafield_capacity > 0 else available
Capacity(metafield_capacity, available) ==
    IF metafield_capacity > 0 THEN metafield_capacity ELSE available

\* the status label, with the test of the available quantity left out
StatusLabelNoSoldOut(is_visible, available) ==
    IF ~is_visible THEN "hidden" ELSE "active"

\* the status label of a ticket: hidden, sold_out or active
StatusLabel(is_visible, available) ==
    IF ~is_visible THEN "hidden"
    ELSE IF available = 0 THEN "sold_out" ELSE "active"

\* the body of the loop of list_variants: one variant folded into a ticket
VariantData(variant) ==
    LET parsed_metafields == _parse_variant_metafields(variant.metafields)
        available == variant.inventoryQuantity
        metafield_capacity == Get(parsed_metafields, "inventory_quantity", 0)
        capacity == Capacity(metafield_capacity, available)
        sold == Sold(capacity, available)
        is_visible == Get(parsed_metafields, "is_visible", TRUE)
        status == StatusLabel(is_visible, available)
        price == variant.price
    IN  [price |-> price, capacity |-> capacity, sold |-> sold,
         revenue |-> sold * price, available |-> available, status |-> status]

\* list_variants: the tickets of the product, by variant id
list_variants ==
    [t \in {v \in VariantIds : variants[v].exists} |-> VariantData(variants[t])]

\* get_variant: the ticket a variant id resolves to
get_variant(t) == VariantData(variants[t])

\* ---------------------------------------------------------------- responses
\* the HTTPException detail of a response: the rule it states, the field or
\* required action it names, the sold count and attempted quantity it quotes
Detail(rule, names, sold, attempted) ==
    [rule |-> rule, names |-> names, sold |-> sold, attempted |-> attempted]

NoDetail == Detail("none", "", 0, 0)

\* the filler of the request fields an operation does not take
NoUpdate == [fields |-> {}, inventory_quantity |-> 0, price |-> 0, is_visible |-> TRUE]

\* the filler of the response body of a request that returns no cached data
NoValue == [events |-> << >>, tickets |-> << >>]

\* the arguments of a cache helper call: the event id of cache_full_event, or
\* the page, limit and filters of cache_events_page
NoArgs == [event_id |-> "", page |-> "", limit |-> "", filters |-> << >>]

NoRequest ==
    [op |-> "none", t |-> "", update |-> NoUpdate, new_status |-> "",
     current_status |-> "", is_featured |-> FALSE, sold_count |-> 0,
     status_code |-> 0,
     detail |-> NoDetail, writes |-> {},
     response |-> NoValue, hit |-> FALSE, cache_get_failed |-> FALSE,
     cache_args |-> NoArgs]

\* what the remote calls of one request do: all succeed, or the first read
\* raises, or the core mutation raises, or the metafieldsSet that follows a
\* successful core mutation reports userErrors or raises (a call that raises
\* ends the handler, so at most one call of a request is seen to fail)
NetOutcomes ==
    {"ok", "read_error", "write_error", "metafields_userErrors", "metafields_error"}

\* the outcomes of a request that sends no metafieldsSet
PlainOutcomes == {"ok", "read_error", "write_error"}

\* the outcomes of a remote call that does not end the handler when it fails
CallOutcomes == {"ok", "error"}

\* ---------------------------------------------------------------- update_variant
\* the native variant fields update_variant sends in productVariantsBulkUpdate
variant_bulk_input(update_data) ==
    update_data.fields \cap {"ticket_name", "price", "compare_at_price"}

\* metafields_to_update: the keys update_variant sends in metafieldsSet
metafields_to_update(update_data) ==
    update_data.fields \cap
        {"description", "features", "is_visible", "max_per_order", "ticket_type",
         "inventory_quantity"}

\* the metafields of a variant after metafieldsSet of the update's keys
MetafieldsSet(metafields, update_data) ==
    LET keys == metafields_to_update(update_data)
                    \cap {"inventory_quantity", "is_visible", "ticket_type"}
    IN  [key \in DOMAIN metafields \cup keys |->
            IF key \in keys
            THEN IF key = "is_visible" THEN BoolStr(update_data.is_visible)
                 ELSE IF key = "inventory_quantity"
                 THEN ToString(update_data.inventory_quantity)
                 ELSE StrTicketType
            ELSE metafields[key]]

\* _format_variant_response: the ticket fields of a raw variant that decide
\* whether TicketResponse accepts it
_format_variant_response(variant_data) ==
    LET metafields == _parse_variant_metafields(variant_data.metafields)
    IN  [ticket_type |-> Get(metafields, "ticket_type", "None"),
         price |-> variant_data.price,
         inventory_quantity |-> variant_data.inventoryQuantity]

\* TicketResponse(**data): whether the schema accepts the formatted variant
TicketResponse(data) == data.ticket_type \in TicketType

\* update_variant: the variant afterwards, the remote attributes written,
\* whether it raised, and the response built from the variant the core
\* mutation returned; the live inventory is never written (the TODO of l.565)
update_variant(variant, update_data, net) ==
    IF net = "write_error"
    THEN [variant |-> variant, writes |-> {}, raised |-> TRUE,
          response |-> _format_variant_response(variant)]
    ELSE LET core == [variant EXCEPT
                        !.price = IF "price" \in update_data.fields
                                  THEN update_data.price ELSE @]
             sent == metafields_to_update(update_data)
         IN  IF sent = {}
             THEN [variant |-> core, writes |-> variant_bulk_input(update_data),
                   raised |-> FALSE, response |-> _format_variant_response(core)]
             ELSE IF net \notin {"metafields_userErrors", "metafields_error"}
             THEN [variant |-> [core EXCEPT
                                  !.metafields = MetafieldsSet(@, update_data)],
                   writes |-> variant_bulk_input(update_data) \cup sent,
                   raised |-> FALSE, response |-> _format_variant_response(core)]
             ELSE [variant |-> core, writes |-> variant_bulk_input(update_data),
                   raised |-> (net = "metafields_error"),
                   response |-> _format_variant_response(core)]

\* ---------------------------------------------------------------- update_ticket
\* the first locked field the request carries, in the order of locked_fields
\* ("" when it carries none)
FirstLocked(update_dict) ==
    LET hit == {i \in DOMAIN locked_fields : locked_fields[i] \in update_dict.fields}
    IN  IF hit = {} THEN ""
        ELSE locked_fields[CHOOSE i \in hit : \A j \in hit : i <= j]

\* new_inventory < sold_count, with the comparison lost
InventoryNeverBelowSold(new_inventory, sold_count) == FALSE

\* new_inventory < sold_count
InventoryBelowSold(new_inventory, sold_count) == new_inventory < sold_count

\* the validation of update_ticket for a ticket with the given sold count: the
\* 400 detail it raises, or NoDetail when the request passes
update_ticket_validation(update_dict, sold_count) ==
    LET has_sales == sold_count > 0
    IN  IF has_sales /\ FirstLocked(update_dict) # ""
        THEN Detail("locked_field", FirstLocked(update_dict), sold_count, 0)
        ELSE IF /\ has_sales
                /\ "inventory_quantity" \in update_dict.fields
                /\ InventoryBelowSold(update_dict.inventory_quantity, sold_count)
        THEN Detail("inventory_below_sold", "inventory_quantity", sold_count,
                    update_dict.inventory_quantity)
        ELSE NoDetail

update_ticket(t, ticket_data, net) ==
    LET req == [NoRequest EXCEPT !.op = "update_ticket", !.t = t, !.update = ticket_data]
    IN
    /\ IF net = "read_error"
       THEN /\ last' = [req EXCEPT !.status_code = 500, !.detail = Detail("error", "", 0, 0)]
            /\ UNCHANGED <<product, variants>>
       ELSE IF ~product.exists \/ ~variants[t].exists
       THEN /\ last' = [req EXCEPT !.status_code = 404, !.detail = Detail("not_found", "", 0, 0)]
            /\ UNCHANGED <<product, variants>>
       ELSE
       LET sold_count == get_variant(t).sold
           refusal == update_ticket_validation(ticket_data, sold_count)
           done == update_variant(variants[t], ticket_data, net)
       IN  IF refusal # NoDetail
           THEN /\ last' = [req EXCEPT !.sold_count = sold_count, !.status_code = 400,
                                       !.detail = refusal]
                /\ UNCHANGED <<product, variants>>
           ELSE /\ variants' = [variants EXCEPT ![t] = done.variant]
                /\ last' = [req EXCEPT !.sold_count = sold_count,
                                       !.status_code =
                                           IF done.raised \/ ~TicketResponse(done.response)
                                           THEN 500 ELSE 200,
                                       !.detail =
                                           IF done.raised THEN Detail("error", "", 0, 0)
                                           ELSE IF ~TicketResponse(done.response)
                                           THEN Detail("unexpected", "", 0, 0)
                                           ELSE NoDetail,
                                       !.writes = done.writes]
                /\ UNCHANGED product

\* ---------------------------------------------------------------- delete_ticket
\* delete_ticket_validation refusing only above one sale
delete_ticket_validation_off_by_one(sold_count) ==
    IF sold_count > 1
    THEN [rule |-> "ticket_has_sales", names |-> "hide it instead",
          sold |-> sold_count, attempted |-> 0]
    ELSE [rule |-> "none", names |-> "", sold |-> 0, attempted |-> 0]

\* the refusal of delete_ticket for a ticket with the given sold count
delete_ticket_validation(sold_count) ==
    IF sold_count > 0
    THEN Detail("ticket_has_sales", "hide it instead", sold_count, 0)
    ELSE NoDetail

\* a variant id that resolves to nothing at the remote
NoVariant ==
    [exists |-> FALSE, price |-> 0, inventoryQuantity |-> 0,
     metafields |-> [key \in {} |-> ""]]

delete_ticket(t, net) ==
    LET req == [NoRequest EXCEPT !.op = "delete_ticket", !.t = t]
    IN
    /\ IF net = "read_error"
       THEN /\ last' = [req EXCEPT !.status_code = 500, !.detail = Detail("error", "", 0, 0)]
            /\ UNCHANGED <<product, variants>>
       ELSE IF ~product.exists \/ ~variants[t].exists
       THEN /\ last' = [req EXCEPT !.status_code = 404, !.detail = Detail("not_found", "", 0, 0)]
            /\ UNCHANGED <<product, variants>>
       ELSE
       LET sold_count == get_variant(t).sold
           refusal == delete_ticket_validation(sold_count)
       IN  IF refusal # NoDetail
           THEN /\ last' = [req EXCEPT !.sold_count = sold_count, !.status_code = 400,
                                       !.detail = refusal]
                /\ UNCHANGED <<product, variants>>
           ELSE IF net = "write_error"
           THEN /\ last' = [req EXCEPT !.sold_count = sold_count, !.status_code = 500,
                                       !.detail = Detail("error", "", 0, 0)]
                /\ UNCHANGED <<product, variants>>
           ELSE /\ variants' = [variants EXCEPT ![t] = NoVariant]
                /\ last' = [req EXCEPT !.sold_count = sold_count, !.status_code = 204,
                                       !.writes = {"productVariantsBulkDelete"}]
                /\ UNCHANGED product

\* ---------------------------------------------------------------- create_ticket
\* _build_variant_metafields: the metafields create_variant sends
_build_variant_metafields(ticket_data) ==
    [key \in {"is_visible", "inventory_quantity", "ticket_type"} |->
        IF key = "is_visible" THEN BoolStr(ticket_data.is_visible)
        ELSE IF key = "inventory_quantity" THEN ToString(ticket_data.inventory_quantity)
        ELSE "regular"]

\* create_variant: the variant the remote holds afterwards; the live inventory
\* of a new variant is 0 until set_inventory_quantity sets it, and a failed or
\* skipped set_inventory_quantity is not fatal
create_variant(ticket, setinv) ==
    [exists |-> TRUE, price |-> ticket.price,
     inventoryQuantity |->
        IF ticket.inventory_quantity > 0 /\ setinv = "ok"
        THEN ticket.inventory_quantity ELSE 0,
     metafields |-> _build_variant_metafields(ticket)]

\* TicketCreate: the fields of a new ticket whose value matters to the handlers
TicketCreate ==
    [fields : {{"ticket_name", "ticket_type", "price", "inventory_quantity"}},
     shopify_product_id : {EventId, "other"},
     inventory_quantity : 0..MaxQty, price : 0..MaxPrice, is_visible : BOOLEAN]

\* the status create_ticket answers with after it has raised an HTTPException
\* of the given status inside its try block: the block has no
\* `except HTTPException`, so `except Exception` takes it
create_ticket_except(raised_code) == 500

create_ticket(t, ticket, net, setinv) ==
    LET req == [NoRequest EXCEPT !.op = "create_ticket", !.t = t, !.update = ticket]
    IN
    /\ ~variants[t].exists
    /\ IF \/ net = "read_error"
          \/ (product.exists /\ ticket.shopify_product_id = EventId
                /\ net = "write_error")
       THEN /\ last' = [req EXCEPT !.status_code = 503,
                                   !.detail = Detail("error", "", 0, 0)]
            /\ UNCHANGED <<product, variants>>
       ELSE IF ~product.exists
       THEN /\ last' = [req EXCEPT !.status_code = create_ticket_except(404),
                                   !.detail = Detail("unexpected", "", 0, 0)]
            /\ UNCHANGED <<product, variants>>
       ELSE IF ticket.shopify_product_id # EventId
       THEN /\ last' = [req EXCEPT !.status_code = create_ticket_except(400),
                                   !.detail = Detail("unexpected", "", 0, 0)]
            /\ UNCHANGED <<product, variants>>
       ELSE /\ variants' = [variants EXCEPT ![t] = create_variant(ticket, setinv)]
            /\ last' = [req EXCEPT !.status_code = 201,
                                   !.writes = {"productVariantsBulkCreate"}]
            /\ UNCHANGED product

\* ---------------------------------------------------------------- events
\* the product statuses of the remote, as the remote spells them
ProductStatus == {"DRAFT", "ACTIVE", "ARCHIVED"}

\* str.lower() on a status
Lower(status) ==
    CASE status \in {"DRAFT", "draft"} -> "draft"
      [] status \in {"ACTIVE", "active"} -> "active"
      [] status \in {"ARCHIVED", "archived"} -> "archived"
      [] OTHER -> status

\* str.upper() on a status
Upper(status) ==
    CASE status \in {"DRAFT", "draft"} -> "DRAFT"
      [] status \in {"ACTIVE", "active"} -> "ACTIVE"
      [] status \in {"ARCHIVED", "archived"} -> "ARCHIVED"
      [] OTHER -> status

\* fetch_product / _format_product_response: the status of the event
fetch_product == [status |-> Lower(product.status)]

\* forbidden_transitions with the draft -> archived entry left out
forbidden_transitions_short ==
    {[from |-> "active", to |-> "draft", names |-> "Use archive instead"],
     [from |-> "archived", to |-> "draft", names |-> "Use publish endpoint"]}

\* forbidden_transitions of update_event: (current, new) and the detail
forbidden_transitions ==
    {[from |-> "active", to |-> "draft", names |-> "Use archive instead"],
     [from |-> "archived", to |-> "draft", names |-> "Use publish endpoint"],
     [from |-> "draft", to |-> "archived", names |-> "Publish it first"]}

\* any(v.get("available", 0) > 0 for v in variants), with >= for >
has_inventory_ge(tickets) == \E t \in DOMAIN tickets : tickets[t].available >= 0

\* any(v.get("available", 0) > 0 for v in variants)
has_inventory(tickets) == \E t \in DOMAIN tickets : tickets[t].available > 0

\* the ticket validation before a status becomes active: the 400 detail it
\* raises, or NoDetail
publish_validation(tickets) ==
    IF DOMAIN tickets = {}
    THEN Detail("no_tickets", "Event must have at least one ticket", 0, 0)
    ELSE IF ~has_inventory(tickets)
    THEN Detail("no_inventory", "At least one ticket must have available inventory", 0, 0)
    ELSE NoDetail

\* the status validation of update_event: the 400 or 500 detail it raises, or
\* NoDetail when the update may be performed
update_event_validation(update_dict, current_status, lookup) ==
    IF "status" \notin update_dict.fields THEN NoDetail
    ELSE
    LET new_status == Lower(update_dict.status)
        hit == {f \in forbidden_transitions :
                    f.from = current_status /\ f.to = new_status}
    IN  IF hit # {}
        THEN Detail("forbidden_transition", (CHOOSE f \in hit : TRUE).names, 0, 0)
        ELSE IF new_status = "active" /\ current_status # "active"
        THEN IF lookup = "error"
             THEN Detail("error", "Failed to validate event tickets", 0, 0)
             ELSE publish_validation(list_variants)
        ELSE NoDetail

\* EventUpdate after model_dump(exclude_none=True): the fields present and the
\* status, the one value the handler reads
EventUpdate ==
    { u \in [fields : SUBSET {"status", "title"},
              status : {"", "draft", "active", "archived", "ACTIVE"}] :
        ("status" \in u.fields) <=> (u.status # "") }

\* the remote calls of an event request: the first fetch_product, the
\* list_variants lookup, the mutation, the fetch_product after the mutation
EventOutcomes == {"ok", "read_error", "lookup_error", "write_error", "refetch_error"}

update_event(event_data, net) ==
    LET req == [NoRequest EXCEPT !.op = "update_event", !.new_status = event_data.status,
                                 !.update = [NoUpdate EXCEPT !.fields = event_data.fields]]
    IN
    /\ IF net = "read_error"
       THEN /\ last' = [req EXCEPT !.status_code = 500, !.detail = Detail("error", "", 0, 0)]
            /\ UNCHANGED <<product, variants>>
       ELSE IF ~product.exists
       THEN /\ last' = [req EXCEPT !.status_code = 404, !.detail = Detail("not_found", "", 0, 0)]
            /\ UNCHANGED <<product, variants>>
       ELSE
       LET current_status == fetch_product.status
           refusal == update_event_validation(event_data, current_status,
                          IF net = "lookup_error" THEN "error" ELSE "ok")
           here == [req EXCEPT !.current_status = current_status]
       IN  IF refusal # NoDetail
           THEN /\ last' = [here EXCEPT
                               !.status_code = IF refusal.rule = "error" THEN 500 ELSE 400,
                               !.detail = refusal]
                /\ UNCHANGED <<product, variants>>
           ELSE IF net = "write_error"
           THEN /\ last' = [here EXCEPT !.status_code = 500,
                                        !.detail = Detail("error", "", 0, 0)]
                /\ UNCHANGED <<product, variants>>
           ELSE /\ product' = [product EXCEPT
                                  !.status = IF "status" \in event_data.fields
                                             THEN Upper(event_data.status) ELSE @]
                /\ last' = [here EXCEPT
                               !.status_code = IF net = "refetch_error" THEN 500 ELSE 200,
                               !.detail = IF net = "refetch_error"
                                          THEN Detail("error", "", 0, 0) ELSE NoDetail,
                               !.writes = event_data.fields]
                /\ UNCHANGED variants

publish_event(net) ==
    LET req == [NoRequest EXCEPT !.op = "publish_event", !.new_status = "active"]
    IN
    /\ IF net \in {"read_error", "lookup_error"}
       THEN /\ last' = [req EXCEPT !.status_code = 500, !.detail = Detail("error", "", 0, 0)]
            /\ UNCHANGED <<product, variants>>
       ELSE IF ~product.exists
       THEN /\ last' = [req EXCEPT !.status_code = 404, !.detail = Detail("not_found", "", 0, 0)]
            /\ UNCHANGED <<product, variants>>
       ELSE
       LET refusal == publish_validation(list_variants)
           here == [req EXCEPT !.current_status = fetch_product.status]
       IN  IF refusal # NoDetail
           THEN /\ last' = [here EXCEPT !.status_code = 400, !.detail = refusal]
                /\ UNCHANGED <<product, variants>>
           ELSE IF net = "write_error"
           THEN /\ last' = [here EXCEPT !.status_code = 500,
                                        !.detail = Detail("error", "", 0, 0)]
                /\ UNCHANGED <<product, variants>>
           ELSE /\ product' = [product EXCEPT !.status = Upper("active")]
                /\ last' = [here EXCEPT
                               !.status_code = IF net = "refetch_error" THEN 500 ELSE 200,
                               !.detail = IF net = "refetch_error"
                                          THEN Detail("error", "", 0, 0) ELSE NoDetail,
                               !.writes = {"status"}]
                /\ UNCHANGED variants

\* _format_product_response: the fields of the event that change in the model,
\* status and total_tickets (totalInventory, the live inventory of the
\* variants summed); total_sold is the field get_popular_events adds
EventProjection ==
    [status |-> Lower(product.status),
     total_tickets |-> SumOver([t \in VariantIds |-> variants[t].inventoryQuantity],
                               {t \in VariantIds : variants[t].exists}),
     total_sold |-> 0]

\* the refusal of toggle_featured, with only a draft event refused
feature_validation_draft_only(is_featured, event_status) ==
    IF is_featured /\ event_status = "draft"
    THEN Detail("not_active", "publish the event first", 0, 0)
    ELSE NoDetail

\* the refusal of toggle_featured for an event of the given status
feature_validation(is_featured, event_status) ==
    IF is_featured /\ event_status # "active"
    THEN Detail("not_active", "publish the event first", 0, 0)
    ELSE NoDetail

toggle_featured(is_featured, net) ==
    LET req == [NoRequest EXCEPT !.op = "toggle_featured", !.is_featured = is_featured]
    IN
    /\ IF net = "read_error"
       THEN /\ last' = [req EXCEPT !.status_code = 500, !.detail = Detail("error", "", 0, 0)]
            /\ UNCHANGED <<product, variants>>
       ELSE IF ~product.exists
       THEN /\ last' = [req EXCEPT !.status_code = 404, !.detail = Detail("not_found", "", 0, 0)]
            /\ UNCHANGED <<product, variants>>
       ELSE
       LET refusal == feature_validation(is_featured, fetch_product.status)
           here == [req EXCEPT !.current_status = fetch_product.status]
       IN  IF refusal # NoDetail
           THEN /\ last' = [here EXCEPT !.status_code = 400, !.detail = refusal]
                /\ UNCHANGED <<product, variants>>
           ELSE IF net = "write_error"
           THEN /\ last' = [here EXCEPT !.status_code = 500,
                                        !.detail = Detail("error", "", 0, 0)]
                /\ UNCHANGED <<product, variants>>
           ELSE /\ product' = [product EXCEPT !.is_featured = is_featured]
                /\ last' = [here EXCEPT
                               !.status_code = IF net = "refetch_error" THEN 500 ELSE 200,
                               !.detail = IF net = "refetch_error"
                                          THEN Detail("error", "", 0, 0) ELSE NoDetail,
                               !.writes = {"is_featured"},
                               !.response =
                                   IF net = "refetch_error" THEN NoValue
                                   ELSE [events |-> <<ShababcoEvent(EventProjection)>>,
                                         tickets |-> << >>]]
                /\ UNCHANGED variants

\* the sold counts of the tickets list_variants returned, summed
total_sold(tickets) == SumOver([t \in DOMAIN tickets |-> tickets[t].sold], DOMAIN tickets)

\* delete_event: the ticket lookup raises when the remote fails or when the
\* product is not there, and the handler then goes on to delete_product
delete_event(lookup, del) ==
    LET req == [NoRequest EXCEPT !.op = "delete_event"]
        looked == lookup = "ok" /\ product.exists
        sold_count == IF looked THEN total_sold(list_variants) ELSE 0
    IN
    /\ IF looked /\ sold_count > 0
       THEN /\ last' = [req EXCEPT !.sold_count = sold_count, !.status_code = 400,
                                   !.detail = Detail("event_has_sales",
                                                     "archive the event instead",
                                                     sold_count, 0)]
            /\ UNCHANGED <<product, variants>>
       ELSE IF del = "error" \/ ~product.exists
       THEN /\ last' = [req EXCEPT !.status_code = 500, !.detail = Detail("error", "", 0, 0)]
            /\ UNCHANGED <<product, variants>>
       ELSE /\ product' = [product EXCEPT !.exists = FALSE, !.is_featured = FALSE]
            /\ variants' = [t \in VariantIds |-> NoVariant]
            /\ last' = [req EXCEPT !.status_code = 204, !.writes = {"productDelete"}]

\* ---------------------------------------------------------------- cache
\* the cache calls one request makes at most (update_ticket: four deletes)
CacheCallsPerRequest == 4

\* the cache calls of one request that raise inside the client: none, the
\* first, the second, or all of them
CacheFailures == {{}, {1}, {2}, 1..CacheCallsPerRequest}

\* the expiry the handlers give the entries of each key family, in seconds
TTL_FULL == 600
TTL_TICKETS == 600
TTL_LIST == 300
TTL_POPULAR == 600

\* cache keys, split at the colons: events:full:{id}, tickets:event:{id},
\* events:list:page=..., events:popular:limit=...
event_full_key(event_id) == <<"events", "full", event_id>>
event_tickets_key(event_id) == <<"tickets", "event", event_id>>
events_list_key == <<"events", "list", "page=1:limit=20">>
events_popular_key == <<"events", "popular", "limit=10">>

CacheKeys ==
    {event_full_key(EventId), event_tickets_key(EventId), events_list_key,
     events_popular_key}

\* a key pattern of redis KEYS: a literal key, or a prefix followed by *
Literal(key) == [prefix |-> key, wildcard |-> FALSE]
Prefix(segments) == [prefix |-> segments, wildcard |-> TRUE]

\* redis KEYS pattern matching
Matches(pattern, key) ==
    IF pattern.wildcard
    THEN /\ Len(key) >= Len(pattern.prefix)
         /\ SubSeq(key, 1, Len(pattern.prefix)) = pattern.prefix
    ELSE key = pattern.prefix

\* json.dumps(value, default=str): a dict or scalar of a JSON type is written
\* as it is; an object of another type (a datetime, a Decimal), which the
\* model marks with a field "type", is written as the string str(obj)
json_default(obj) ==
    IF "type" \in DOMAIN obj /\ obj.type # "str"
    THEN [obj EXCEPT !.type = "str"]
    ELSE obj

json_dumps(value) ==
    [events |-> [i \in DOMAIN value.events |-> json_default(value.events[i])],
     tickets |-> [i \in DOMAIN value.tickets |-> json_default(value.tickets[i])]]

\* json.loads: the text of a JSON value read back as that value
json_loads(data) == data

\* cache_get that returns the entry although the call raised
cache_get_unguarded(key, failed) ==
    IF key \notin DOMAIN redis_client
    THEN [hit |-> FALSE, value |-> NoValue]
    ELSE [hit |-> TRUE, value |-> json_loads(redis_client[key].value)]

\* cache_get: None when the store is down, the call raises or the key is absent
cache_get(key, failed) ==
    IF ~REDIS_AVAILABLE \/ failed \/ key \notin DOMAIN redis_client
    THEN [hit |-> FALSE, value |-> NoValue]
    ELSE [hit |-> TRUE, value |-> json_loads(redis_client[key].value)]

\* SET without an expiry in the place of setex
cache_set_no_expiry(entries, key, value, ttl, failed) ==
    IF ~REDIS_AVAILABLE \/ failed THEN entries
    ELSE [k \in DOMAIN entries \cup {key} |->
            IF k = key THEN [value |-> json_dumps(value), ttl |-> 0, age |-> 0]
            ELSE entries[k]]

\* cache_set: setex(key, ttl, value); nothing when the store is down or the
\* call raises
cache_set(entries, key, value, ttl, failed) ==
    IF ~REDIS_AVAILABLE \/ failed THEN entries
    ELSE [k \in DOMAIN entries \cup {key} |->
            IF k = key THEN [value |-> json_dumps(value), ttl |-> ttl, age |-> 0]
            ELSE entries[k]]

\* cache_delete that deletes nothing
cache_delete_nothing(entries, pattern, failed) == entries

\* cache_delete: delete the keys matching the pattern; nothing when the store
\* is down or the call raises
cache_delete(entries, pattern, failed) ==
    IF ~REDIS_AVAILABLE \/ failed THEN entries
    ELSE [k \in {x \in DOMAIN entries : ~Matches(pattern, x)} |-> entries[k]]

\* the filter names cache_events_page is called with, in the order of
\* json.dumps(filters, sort_keys=True)
FilterKeys == <<"category", "search">>

\* json.dumps(filters, sort_keys=True) if filters else "none": the names and
\* values of the filters in the order of the names
RECURSIVE FilterStrFrom(_, _)
FilterStrFrom(filters, i) ==
    IF i > Len(FilterKeys) THEN << >>
    ELSE (IF FilterKeys[i] \in DOMAIN filters
          THEN <<FilterKeys[i], filters[FilterKeys[i]]>>
          ELSE << >>) \o FilterStrFrom(filters, i + 1)

filter_str(filters) ==
    IF DOMAIN filters = {} THEN <<"none">> ELSE FilterStrFrom(filters, 1)

\* hashlib.md5(...).hexdigest(): no two of the texts the model hashes collide
md5(data) == data

\* the key of cache_events_page that leaves the filters out
events_page_key_no_filters(page, limit, filters) ==
    <<"events", "list", "page=", page, "limit=", limit, "filters=">>

\* events:list:page={page}:limit={limit}:filters={md5 of the filters}
events_page_key(page, limit, filters) ==
    <<"events", "list", "page=", page, "limit=", limit, "filters=">>
        \o md5(filter_str(filters))

\* cache_full_event and get_cached_full_event
cache_full_event(entries, event_id, event_data, ttl) ==
    cache_set(entries, event_full_key(event_id), event_data, ttl, FALSE)

get_cached_full_event(event_id) == cache_get(event_full_key(event_id), FALSE)

\* cache_events_page and get_cached_events_page
cache_events_page(entries, page, limit, filters, events_data, ttl) ==
    cache_set(entries, events_page_key(page, limit, filters), events_data, ttl, FALSE)

get_cached_events_page(page, limit, filters) ==
    cache_get(events_page_key(page, limit, filters), FALSE)

\* invalidate_event_caches without the delete of tickets:*
invalidate_event_caches_events_only(entries, event_id, failing, n) ==
    IF event_id # ""
    THEN cache_delete(entries, Literal(event_full_key(event_id)), (n + 1) \in failing)
    ELSE cache_delete(entries, Prefix(<<"events">>), (n + 1) \in failing)

\* invalidate_event_caches(event_id), event_id = "" standing for None; its two
\* deletes are the cache calls n + 1 and n + 2 of the request
invalidate_event_caches(entries, event_id, failing, n) ==
    IF event_id # ""
    THEN cache_delete(
             cache_delete(entries, Literal(event_full_key(event_id)), (n + 1) \in failing),
             Literal(event_tickets_key(event_id)), (n + 2) \in failing)
    ELSE cache_delete(
             cache_delete(entries, Prefix(<<"events">>), (n + 1) \in failing),
             Prefix(<<"tickets">>), (n + 2) \in failing)

\* invalidate_ticket_caches(event_id=event_id)
invalidate_ticket_caches(entries, event_id, failing, n) ==
    cache_delete(
        cache_delete(entries, Literal(event_tickets_key(event_id)), (n + 1) \in failing),
        Literal(event_full_key(event_id)), (n + 2) \in failing)

\* the request reached the invalidation its handler makes after the remote
\* write: update_ticket after update_variant returned (before the response is
\* validated), the event handlers just before they return
ReachedInvalidation(req) ==
    CASE req.op = "update_ticket" ->
            req.status_code = 200 \/ req.detail.rule = "unexpected"
      [] req.op \in {"update_event", "publish_event", "toggle_featured"} ->
            req.status_code = 200
      [] req.op = "delete_event" -> req.status_code = 204
      [] req.op = "create_event" -> req.status_code = 201
      [] OTHER -> FALSE

\* the cache entries after a mutating request: create_ticket and delete_ticket
\* make no cache call, update_ticket invalidates the keys of its event, the
\* event handlers invalidate every events:* and tickets:* key
CacheAfter(req, entries, failing) ==
    IF ~ReachedInvalidation(req) THEN entries
    ELSE IF req.op = "update_ticket"
    THEN invalidate_ticket_caches(
             invalidate_event_caches(entries, EventId, failing, 0),
             EventId, failing, 2)
    ELSE invalidate_event_caches(entries, "", failing, 0)

\* ---------------------------------------------------------------- cached reads
\* the body of get_event on a cache miss
EventBody == [events |-> <<EventProjection>>, tickets |-> << >>]

\* the body of get_tickets_view on a cache miss
TicketsBody == [events |-> << >>, tickets |-> list_variants]

\* the body of get_events on a cache miss: the page of events
ListBody ==
    [events |-> IF product.exists THEN <<EventProjection>> ELSE << >>,
     tickets |-> << >>]

\* the featured filter of get_events: the events of a page whose is_featured
\* equals the query parameter
featured_filter(batch_events, featured) ==
    SelectSeq(batch_events, LAMBDA e : Opt(e, "is_featured") = Some(featured))

\* the body of get_popular_events on a cache miss: the active events with
\* their total_sold, 0 for an event whose list_variants raised
PopularBody(lookup) ==
    [events |->
        IF product.exists /\ Lower(product.status) = "active"
        THEN <<[EventProjection EXCEPT
                   !.total_sold = IF lookup = "error" THEN 0
                                  ELSE total_sold(list_variants)]>>
        ELSE << >>,
     tickets |-> << >>]

\* the outcomes of the remote calls of a read
ReadOutcomes == {"ok", "read_error", "lookup_error"}

get_event(net, failing) ==
    LET req == [NoRequest EXCEPT !.op = "get_event", !.cache_get_failed = (1 \in failing)]
        cached_event == cache_get(event_full_key(EventId), 1 \in failing)
    IN
    /\ IF cached_event.hit
       THEN /\ last' = [req EXCEPT !.status_code = 200, !.hit = TRUE,
                                   !.response = cached_event.value]
            /\ UNCHANGED redis_client
       ELSE IF net = "read_error"
       THEN /\ last' = [req EXCEPT !.status_code = 503, !.detail = Detail("error", "", 0, 0)]
            /\ UNCHANGED redis_client
       ELSE IF ~product.exists
       THEN /\ last' = [req EXCEPT !.status_code = 404, !.detail = Detail("not_found", "", 0, 0)]
            /\ UNCHANGED redis_client
       ELSE /\ redis_client' = cache_set(redis_client, event_full_key(EventId), EventBody,
                                         TTL_FULL, 2 \in failing)
            /\ last' = [req EXCEPT !.status_code = 200, !.response = EventBody]
    /\ UNCHANGED <<product, variants, REDIS_AVAILABLE, settings, deliveries, processed_webhook, listing, roundtrip, tasks>>

get_tickets_view(net, failing) ==
    LET req == [NoRequest EXCEPT !.op = "get_tickets_view", !.cache_get_failed = (1 \in failing)]
        cached_tickets == cache_get(event_tickets_key(EventId), 1 \in failing)
    IN
    /\ IF cached_tickets.hit /\ DOMAIN cached_tickets.value.tickets # {}
       THEN /\ last' = [req EXCEPT !.status_code = 200, !.hit = TRUE,
                                   !.response = cached_tickets.value]
            /\ UNCHANGED redis_client
       ELSE IF net \in {"read_error", "lookup_error"}
       THEN /\ last' = [req EXCEPT !.status_code = 500, !.detail = Detail("error", "", 0, 0)]
            /\ UNCHANGED redis_client
       ELSE IF ~product.exists
       THEN /\ last' = [req EXCEPT !.status_code = 500,
                                   !.detail = Detail("unexpected", "", 0, 0)]
            /\ UNCHANGED redis_client
       ELSE /\ redis_client' = cache_set(redis_client, event_tickets_key(EventId),
                                         TicketsBody, TTL_TICKETS, 2 \in failing)
            /\ last' = [req EXCEPT !.status_code = 200, !.response = TicketsBody]
    /\ UNCHANGED <<product, variants, REDIS_AVAILABLE, settings, deliveries, processed_webhook, listing, roundtrip, tasks>>

get_events(net, failing) ==
    LET req == [NoRequest EXCEPT !.op = "get_events", !.cache_get_failed = (1 \in failing)]
        cached_response == cache_get(events_list_key, 1 \in failing)
    IN
    /\ IF cached_response.hit
       THEN /\ last' = [req EXCEPT !.status_code = 200, !.hit = TRUE,
                                   !.response = cached_response.value]
            /\ UNCHANGED redis_client
       ELSE IF net = "read_error"
       THEN /\ last' = [req EXCEPT !.status_code = 503, !.detail = Detail("error", "", 0, 0)]
            /\ UNCHANGED redis_client
       ELSE LET listed == cache_set(redis_client, events_list_key, ListBody,
                                    TTL_LIST, 2 \in failing)
            IN  /\ redis_client' =
                       IF product.exists
                       THEN cache_set(listed, event_full_key(EventId), EventBody,
                                      TTL_FULL, 3 \in failing)
                       ELSE listed
                /\ last' = [req EXCEPT !.status_code = 200, !.response = ListBody]
    /\ UNCHANGED <<product, variants, REDIS_AVAILABLE, settings, deliveries, processed_webhook, listing, roundtrip, tasks>>

get_popular_events(net, failing) ==
    LET req == [NoRequest EXCEPT !.op = "get_popular_events", !.cache_get_failed = (1 \in failing)]
        cached_response == cache_get(events_popular_key, 1 \in failing)
        body == PopularBody(IF net = "lookup_error" THEN "error" ELSE "ok")
    IN
    /\ IF cached_response.hit /\ Len(cached_response.value.events) > 0
       THEN /\ last' = [req EXCEPT !.status_code = 200, !.hit = TRUE,
                                   !.response = cached_response.value]
            /\ UNCHANGED redis_client
       ELSE IF net = "read_error"
       THEN /\ last' = [req EXCEPT !.status_code = 503, !.detail = Detail("error", "", 0, 0)]
            /\ UNCHANGED redis_client
       ELSE /\ redis_client' = cache_set(redis_client, events_popular_key, body,
                                         TTL_POPULAR, 2 \in failing)
            /\ last' = [req EXCEPT !.status_code = 200, !.response = body]
    /\ UNCHANGED <<product, variants, REDIS_AVAILABLE, settings, deliveries, processed_webhook, listing, roundtrip, tasks>>

\* EventCreate.status
EventCreateStatus == {"active", "draft", "archived"}

\* create_event: the product is created with the status asked for and no
\* variant the model follows
create_event(status, net) ==
    LET req == [NoRequest EXCEPT !.op = "create_event", !.new_status = status]
    IN
    /\ ~product.exists
    /\ IF net = "write_error"
       THEN /\ last' = [req EXCEPT !.status_code = 503, !.detail = Detail("error", "", 0, 0)]
            /\ UNCHANGED <<product, variants>>
       ELSE /\ product' = [exists |-> TRUE, status |-> Upper(status), is_featured |-> FALSE]
            /\ last' = [req EXCEPT !.status_code = 201, !.writes = {"productCreate"}]
            /\ UNCHANGED variants

\* the store expires entries: the time of the shortest expiry passes, and
\* every entry that has reached its expiry is gone
Tick ==
    /\ redis_client' =
          [k \in {x \in DOMAIN redis_client :
                     redis_client[x].ttl = 0
                     \/ redis_client[x].age + TTL_LIST < redis_client[x].ttl} |->
              [redis_client[k] EXCEPT !.age = @ + TTL_LIST]]
    /\ redis_client' # redis_client
    /\ UNCHANGED <<product, variants, last, REDIS_AVAILABLE, settings, deliveries, processed_webhook, listing, roundtrip, tasks>>

\* ---------------------------------------------------------------- webhooks
\* the deliveries the remote platform makes, and the ids they carry; the
\* platform sends a notification again under the same id
DeliveryIds == {"d1", "d2"}
WebhookIds == {"w1", "w2"}

\* the shared secret of the deployment and one that is not
Secrets == {"secret", "other"}

\* raw request bodies: an order as JSON, and bytes that are no JSON
NoBody == [json |-> FALSE, order_id |-> ""]
Bodies == {[json |-> TRUE, order_id |-> "1001"], [json |-> TRUE, order_id |-> "1002"],
           [json |-> FALSE, order_id |-> "garbled"]}

\* base64 of the HMAC-SHA256 of the body under the secret, as a str
Sign(secret, data) == [secret |-> secret, data |-> data, ascii |-> TRUE]

\* the values of the X-Shopify-Hmac-SHA256 header: a signature of some body
\* under some secret, or a str with non-ASCII characters
NonAsciiHeader == [secret |-> "", data |-> NoBody, ascii |-> FALSE]
HmacHeaders == {Sign(secret, data) : secret \in Secrets, data \in Bodies} \cup {NonAsciiHeader}

NoDelivery ==
    [pc |-> "idle", webhook_id |-> "", body |-> NoBody, hmac_header |-> NonAsciiHeader,
     status_code |-> 0, applied |-> FALSE, replay |-> FALSE]

NoWebhooks ==
    /\ settings = [SHOPIFY_WEBHOOK_SECRET |-> "secret"]
    /\ deliveries = [d \in DeliveryIds |-> NoDelivery]
    /\ processed_webhook = {}

\* verify_webhook_signature that takes an exception of the comparison for a
\* match
verify_webhook_signature_except_true(data, hmac_header, secret) ==
    IF ~hmac_header.ascii THEN TRUE
    ELSE Sign(secret, data) = hmac_header

\* verify_webhook_signature: compare_digest of the computed signature and
\* the header; compare_digest raises TypeError on a non-ASCII str, and any
\* exception gives False
verify_webhook_signature(data, hmac_header, secret) ==
    IF ~hmac_header.ascii THEN FALSE
    ELSE Sign(secret, data) = hmac_header

\* the deliveries of the same webhook id that have returned success
Succeeded(webhook_id) ==
    {d \in DeliveryIds : /\ deliveries[d].webhook_id = webhook_id
                         /\ deliveries[d].pc = "done"
                         /\ deliveries[d].status_code = 200}

\* order_created_webhook up to `await request.body()`: the request is in, its
\* headers are read and the handler waits for the body
order_created_webhook_request(d, webhook_id, body, x_shopify_hmac_sha256) ==
    /\ deliveries[d].pc = "idle"
    /\ deliveries' = [deliveries EXCEPT ![d] =
          [NoDelivery EXCEPT !.pc = "body", !.webhook_id = webhook_id, !.body = body,
                             !.hmac_header = x_shopify_hmac_sha256,
                             !.replay = (Succeeded(webhook_id) # {})]]
    /\ UNCHANGED <<settings, processed_webhook, listing, roundtrip, tasks>>

\* order_created_webhook from the body on, without a suspension: 500 without
\* a secret, 401 on an invalid signature, 400 on a body that is no JSON,
\* else the order is logged and the acknowledgement returned; no table is
\* read or written
order_created_webhook(d) ==
    LET req == deliveries[d]
        is_valid == verify_webhook_signature(req.body, req.hmac_header,
                                             settings.SHOPIFY_WEBHOOK_SECRET)
    IN
    /\ req.pc = "body"
    /\ deliveries' = [deliveries EXCEPT ![d] =
          IF settings.SHOPIFY_WEBHOOK_SECRET = ""
          THEN [req EXCEPT !.pc = "done", !.status_code = 500]
          ELSE IF ~is_valid
          THEN [req EXCEPT !.pc = "done", !.status_code = 401]
          ELSE IF ~req.body.json
          THEN [req EXCEPT !.pc = "done", !.status_code = 400]
          ELSE [req EXCEPT !.pc = "done", !.status_code = 200, !.applied = TRUE]]
    /\ UNCHANGED <<settings, processed_webhook, listing, roundtrip, tasks>>

\* ---------------------------------------------------------------- fetch-all-pages loops
\* most pages the remote catalog has in the model
MaxPages == 12

\* list_products(limit=50, ...): the products of a full page
PageLimit == 50

\* the safety limit of the loops
SafetyLimit == 500

\* the loop of no request
NoListing ==
    [op |-> "none", pc |-> "idle", filtered |-> FALSE, all_events |-> 0, fetches |-> 0]

\* the products a page of the remote catalog holds: a page followed by
\* another is full, the last page holds from none to a full page
PageSizes(has_next_page) ==
    IF has_next_page THEN {PageLimit} ELSE {0, 1, PageLimit}

\* the products of a page that pass the category and featured filters of
\* get_events, which are applied to the page after it is fetched
Kept(size, filtered) ==
    IF filtered THEN {0, 1, size} \cap 0..size ELSE {size}

\* get_events or get_popular_events reaches its loop: all_events = []
fetch_all_start(op, filtered) ==
    /\ listing.pc = "idle"
    /\ op = "get_popular_events" => ~filtered
    /\ listing' = [NoListing EXCEPT !.op = op, !.pc = "loop", !.filtered = filtered]

\* one turn of the loop: fetch a page, filter it (get_events), extend
\* all_events, stop on the last page or when all_events has reached the limit
fetch_all_page(has_next_page, size, kept) ==
    /\ listing.pc = "loop"
    /\ listing' = [listing EXCEPT
          !.all_events = @ + kept,
          !.fetches = @ + 1,
          !.pc = IF ~has_next_page THEN "done"
                 ELSE IF listing.all_events + kept >= SafetyLimit THEN "done"
                 ELSE "loop"]

\* the request goes on with the events it has accumulated
fetch_all_done ==
    /\ listing.pc = "done"
    /\ listing' = [listing EXCEPT !.pc = "idle"]

\* ---------------------------------------------------------------- products
\* most metafields of namespace "event" a remote product holds at the start
MaxMetafields == 2

\* truth value of an optional text and of an optional list
TruthyText(opt) == opt # None /\ opt[1] # ""
TruthyList(opt) == opt # None /\ opt[1] # << >>

\* metafield_keys: the metafields of namespace "event"
metafield_keys ==
    {"subtitle", "category", "cover_image", "gallery_images", "venue_name",
     "city", "address", "country", "location_link", "start_datetime",
     "end_datetime", "organizer_name"}

\* the fields of an event that are product fields of the remote
core_keys == {"title", "description", "tags", "seo_slug", "status"}

\* the text a text metafield holds in the model: one text for each key
TextOf(key) == key

\* the lists of gallery images
Galleries == {<< >>, <<"g1">>}

\* json.dumps(list) and json.loads(text) of the gallery_images metafield
json_dumps_list(value) == <<"[">> \o value \o <<"]">>
json_loads_list(text) == SubSeq(text, 2, Len(text) - 1)

\* the metafields of namespace "event" of a remote product: keys and values
EventMetafields(keys, gallery) ==
    [key \in keys |->
        IF key = "gallery_images" THEN json_dumps_list(gallery) ELSE TextOf(key)]

\* the metafields of namespace "custom": is_featured, once it has been set
CustomMetafields(featured) ==
    IF featured = "none" THEN << >> ELSE [is_featured |-> featured]

\* _format_product_response: the event fields of a raw product; the queries
\* read the metafields of namespace "event" only
_format_product_response(product_data) ==
    LET metafields == product_data.metafields
        gallery_images_json == Opt(metafields, "gallery_images")
    IN  [title |-> product_data.title,
         subtitle |-> Opt(metafields, "subtitle"),
         description |-> product_data.descriptionHtml,
         category |-> Opt(metafields, "category"),
         tags |-> product_data.tags,
         cover_image |-> Opt(metafields, "cover_image"),
         gallery_images |->
            IF TruthyList(gallery_images_json)
            THEN Some(json_loads_list(gallery_images_json[1])) ELSE None,
         venue_name |-> Opt(metafields, "venue_name"),
         city |-> Opt(metafields, "city"),
         address |-> Opt(metafields, "address"),
         country |-> Opt(metafields, "country"),
         location_link |-> Opt(metafields, "location_link"),
         start_datetime |-> Opt(metafields, "start_datetime"),
         end_datetime |-> Opt(metafields, "end_datetime"),
         organizer_name |-> Opt(metafields, "organizer_name"),
         seo_slug |-> product_data.handle,
         status |-> Lower(product_data.status)]

\* create_product(**kwargs): the raw product the remote creates; a metafield
\* is sent when its value is truthy, and so are description, tags and handle
create_product(kwargs) ==
    LET sent == {key \in metafield_keys :
                    IF key = "gallery_images" THEN TruthyList(kwargs[key])
                    ELSE TruthyText(kwargs[key])}
    IN  [title |-> kwargs.title,
         descriptionHtml |-> IF kwargs.description # "" THEN kwargs.description ELSE "",
         handle |-> IF kwargs.seo_slug # "" THEN kwargs.seo_slug ELSE kwargs.title,
         status |-> Upper(kwargs.status),
         tags |-> IF kwargs.tags # << >> THEN kwargs.tags ELSE << >>,
         metafields |->
            [key \in sent |->
                IF key = "gallery_images" THEN json_dumps_list(kwargs[key][1])
                ELSE kwargs[key][1]],
         custom |-> << >>]

\* product_input of update_product: the product fields of update_data
product_input(product_data, update_data) ==
    [product_data EXCEPT
        !.title = Get(update_data, "title", @),
        !.descriptionHtml = Get(update_data, "description", @),
        !.tags = Get(update_data, "tags", @),
        !.handle = Get(update_data, "seo_slug", @),
        !.status = IF "status" \in DOMAIN update_data
                   THEN Upper(update_data.status) ELSE @]

\* metafields_to_update of update_product: the metafields of update_data
product_metafields_to_update(update_data) ==
    [key \in DOMAIN update_data \cap metafield_keys |->
        IF key = "gallery_images" THEN json_dumps_list(update_data[key])
        ELSE update_data[key]]

\* the outcomes of the remote calls of update_product
ProductOutcomes ==
    {"ok", "write_error", "metafields_userErrors", "metafields_error",
     "refetch_error"}

\* update_product: the raw product afterwards and whether the call raised.
\* productUpdate comes first; userErrors of metafieldsSet are logged, an
\* exception of metafieldsSet or of the closing fetch_product is not caught
update_product(product_data, update_data, outcome) ==
    IF outcome = "write_error"
    THEN [product_data |-> product_data, raised |-> TRUE]
    ELSE LET core == product_input(product_data, update_data)
             sent == product_metafields_to_update(update_data)
             full == [core EXCEPT
                        !.metafields =
                            [key \in DOMAIN @ \cup DOMAIN sent |->
                                IF key \in DOMAIN sent THEN sent[key] ELSE @[key]]]
         IN  IF DOMAIN sent = {}
             THEN [product_data |-> core, raised |-> outcome = "refetch_error"]
             ELSE CASE outcome = "metafields_userErrors" ->
                        [product_data |-> core, raised |-> FALSE]
                    [] outcome = "metafields_error" ->
                        [product_data |-> core, raised |-> TRUE]
                    [] outcome = "refetch_error" ->
                        [product_data |-> full, raised |-> TRUE]
                    [] OTHER -> [product_data |-> full, raised |-> FALSE]

\* the fields of an event as keyword arguments of create_product
Kwargs(event) == [key \in metafield_keys \cup core_keys |-> event[key]]

\* the fields of an event as update_data: the fields that are not None
UpdateData(event) ==
    [key \in {k \in metafield_keys \cup core_keys :
                k \in metafield_keys => event[k] # None} |->
        IF key \in metafield_keys THEN event[key][1] ELSE event[key]]

\* no remote product under consideration
NoRoundTrip ==
    [pc |-> "idle", via |-> "none", outcome |-> "none", raised |-> FALSE,
     product_data |-> << >>, event |-> << >>, update_data |-> << >>,
     written |-> << >>]

\* ---------------------------------------------------------------- concurrent requests
\* the requests the event loop runs side by side; a handler runs without
\* interruption between two awaits, and every remote call is an await
RequestIds == {"r1", "r2"}

\* a request that has not arrived
NoTask ==
    [op |-> "none", pc |-> "idle", t |-> "", event_data |-> [fields |-> {}, status |-> ""],
     ticket_data |-> NoUpdate, current_status |-> "", sold_count |-> 0,
     body |-> NoValue, status_code |-> 0, hit |-> FALSE, writes |-> {}]

NoTasks == [r \in RequestIds |-> NoTask]

\* the read-through handlers
ReadOps == {"get_event", "get_tickets_view", "get_events", "get_popular_events"}

\* the cache key of a read-through handler and the expiry it stores with
ReadKey(op) ==
    CASE op = "get_event" -> event_full_key(EventId)
      [] op = "get_tickets_view" -> event_tickets_key(EventId)
      [] op = "get_events" -> events_list_key
      [] OTHER -> events_popular_key

ReadTTL(op) ==
    CASE op = "get_event" -> TTL_FULL
      [] op = "get_tickets_view" -> TTL_TICKETS
      [] op = "get_events" -> TTL_LIST
      [] OTHER -> TTL_POPULAR

\* what the remote answers a read-through handler at this moment
ReadBody(op) ==
    CASE op = "get_event" -> EventBody
      [] op = "get_tickets_view" -> TicketsBody
      [] op = "get_events" -> ListBody
      [] OTHER -> PopularBody("ok")

\* a task ends with a status
Done(task, status_code) == [task EXCEPT !.pc = "done", !.status_code = status_code]

\* a request arrives.  A mutating handler goes to its first await; a
\* read-through handler looks into the cache first and answers from it
task_start(r, op, t, event_data, ticket_data) ==
    LET task == [NoTask EXCEPT !.op = op, !.t = t, !.event_data = event_data,
                               !.ticket_data = ticket_data]
        cached == cache_get(ReadKey(op), FALSE)
        cache_hit == /\ op \in ReadOps
                     /\ cached.hit
                     /\ op = "get_tickets_view" => DOMAIN cached.value.tickets # {}
                     /\ op = "get_popular_events" => Len(cached.value.events) > 0
    IN  /\ tasks[r].pc = "idle"
        /\ tasks' = [tasks EXCEPT ![r] =
              IF cache_hit
              THEN [Done(task, 200) EXCEPT !.hit = TRUE, !.body = cached.value]
              ELSE [task EXCEPT !.pc = "fetch"]]
        /\ UNCHANGED <<product, variants, redis_client>>

\* the remote answers the first call of the handler: fetch_product of the
\* mutating handlers and of get_event and get_tickets_view, the listing of
\* get_events and get_popular_events.  A read-through handler keeps what the
\* remote answered
task_fetch(r) ==
    LET task == tasks[r]
    IN  /\ task.pc = "fetch"
        /\ tasks' = [tasks EXCEPT ![r] =
              IF task.op \in {"get_events", "get_popular_events"}
              THEN [task EXCEPT !.pc = "store", !.body = ReadBody(task.op)]
              ELSE IF ~product.exists
              THEN Done(task, IF task.op = "get_tickets_view" THEN 500 ELSE 404)
              ELSE IF task.op \in ReadOps
              THEN [task EXCEPT !.pc = "store", !.body = ReadBody(task.op)]
              ELSE [task EXCEPT !.pc = "validate",
                                !.current_status = fetch_product.status]]
        /\ UNCHANGED <<product, variants, redis_client>>

\* the response of the remote has arrived: the read-through handler stores
\* it and returns (get_events stores the page and each event of the page)
task_store(r) ==
    LET task == tasks[r]
        stored == cache_set(redis_client, ReadKey(task.op), task.body,
                            ReadTTL(task.op), FALSE)
    IN  /\ task.pc = "store"
        /\ redis_client' =
              IF task.op = "get_events" /\ task.body.events # << >>
              THEN cache_set(stored, event_full_key(EventId), task.body, TTL_FULL, FALSE)
              ELSE stored
        /\ tasks' = [tasks EXCEPT ![r] = Done(task, 200)]
        /\ UNCHANGED <<product, variants>>

\* the second read of a mutating handler and its validation: the transition
\* and the tickets of update_event, the tickets of publish_event, the sold
\* count of update_ticket and delete_ticket
task_validate(r) ==
    LET task == tasks[r]
        missing == task.op \in {"update_ticket", "delete_ticket"}
                      /\ ~variants[task.t].exists
        sold_count == IF task.op \in {"update_ticket", "delete_ticket"} /\ ~missing
                      THEN get_variant(task.t).sold ELSE 0
        refusal ==
            CASE task.op = "update_event" ->
                    update_event_validation(task.event_data, task.current_status, "ok")
              [] task.op = "publish_event" -> publish_validation(list_variants)
              [] task.op = "update_ticket" ->
                    update_ticket_validation(task.ticket_data, sold_count)
              [] OTHER -> delete_ticket_validation(sold_count)
    IN  /\ task.pc = "validate"
        /\ tasks' = [tasks EXCEPT ![r] =
              IF missing THEN Done(task, 404)
              ELSE IF refusal # NoDetail
              THEN Done([task EXCEPT !.sold_count = sold_count], 400)
              ELSE [task EXCEPT !.pc = "mutate", !.sold_count = sold_count]]
        /\ UNCHANGED <<product, variants, redis_client>>

\* the remote applies the mutation of the handler
task_mutate(r) ==
    LET task == tasks[r]
        gone == IF task.op \in {"update_ticket", "delete_ticket"}
                THEN ~variants[task.t].exists ELSE ~product.exists
    IN  /\ task.pc = "mutate"
        /\ IF gone
           THEN /\ tasks' = [tasks EXCEPT ![r] = Done(task, 500)]
                /\ UNCHANGED <<product, variants, redis_client>>
           ELSE
           CASE task.op = "update_event" ->
                   /\ product' = [product EXCEPT
                          !.status = IF "status" \in task.event_data.fields
                                     THEN Upper(task.event_data.status) ELSE @]
                   /\ tasks' = [tasks EXCEPT ![r] =
                          [task EXCEPT !.pc = "finish", !.writes = task.event_data.fields]]
                   /\ UNCHANGED <<variants, redis_client>>
             [] task.op = "publish_event" ->
                   /\ product' = [product EXCEPT !.status = Upper("active")]
                   /\ tasks' = [tasks EXCEPT ![r] =
                          [task EXCEPT !.pc = "finish", !.writes = {"status"}]]
                   /\ UNCHANGED <<variants, redis_client>>
             [] task.op = "update_ticket" ->
                   LET done == update_variant(variants[task.t], task.ticket_data, "ok")
                   IN  /\ variants' = [variants EXCEPT ![task.t] = done.variant]
                       /\ tasks' = [tasks EXCEPT ![r] =
                              [task EXCEPT !.pc = "finish", !.writes = done.writes]]
                       /\ UNCHANGED <<product, redis_client>>
             [] OTHER ->
                   /\ variants' = [variants EXCEPT ![task.t] = NoVariant]
                   /\ tasks' = [tasks EXCEPT ![r] =
                          [Done(task, 204) EXCEPT !.writes = {"productVariantsBulkDelete"}]]
                   /\ UNCHANGED <<product, redis_client>>

\* the response of the mutation has arrived: the handler invalidates and
\* returns (delete_ticket has returned already: it makes no cache call)
task_finish(r) ==
    LET task == tasks[r]
    IN  /\ task.pc = "finish"
        /\ redis_client' =
              IF task.op = "update_ticket"
              THEN invalidate_ticket_caches(
                       invalidate_event_caches(redis_client, EventId, {}, 0),
                       EventId, {}, 2)
              ELSE invalidate_event_caches(redis_client, "", {}, 0)
        /\ tasks' = [tasks EXCEPT ![r] = Done(task, 200)]
        /\ UNCHANGED <<product, variants>>

\* ---------------------------------------------------------------- steps around the handlers
\* a customer buys one unit of a ticket at the remote: the live inventory
\* drops by one and never below 0 (inventoryPolicy DENY, variants.py l.332)
Sale(t) ==
    /\ variants[t].exists
    /\ variants[t].inventoryQuantity > 0
    /\ variants' = [variants EXCEPT ![t].inventoryQuantity = @ - 1]
    /\ UNCHANGED <<product, last, REDIS_AVAILABLE, redis_client, settings,
                 deliveries, processed_webhook, listing, roundtrip, tasks>>

\* the response of the last request reaches the caller, who may send the next
Return ==
    /\ last # NoRequest
    /\ last' = NoRequest
    /\ UNCHANGED <<product, variants, REDIS_AVAILABLE, redis_client, settings,
                 deliveries, processed_webhook, listing, roundtrip, tasks>>

\* ---------------------------------------------------------------- specification
\* the variants the remote may hold at the start: tickets this program created,
\* tickets created before the capacity metafield existed, tickets whose
\* capacity metafield was saved as 0, each with any live inventory
VariantStates ==
    { v \in [exists : {TRUE}, price : 0..MaxPrice, inventoryQuantity : 0..MaxQty,
             metafields :
                UNION { [K -> {"true", "false", "regular"}
                                \cup {ToString(i) : i \in 0..MaxQty}] :
                        K \in {{"is_visible", "ticket_type"},
                               {"is_visible", "ticket_type", "inventory_quantity"}} }] :
        /\ v.metafields["is_visible"] \in {"true", "false"}
        /\ v.metafields["ticket_type"] = "regular"
        /\ "inventory_quantity" \in DOMAIN v.metafields
              => v.metafields["inventory_quantity"] \in {ToString(i) : i \in 0..MaxQty} }

\* the ticket the ticket-level specification follows
TicketIds == {"t1"}

Init ==
    /\ product = [exists |-> TRUE, status |-> "DRAFT", is_featured |-> FALSE]
    /\ variants \in [VariantIds -> VariantStates \cup {NoVariant}]
    /\ \A t \in VariantIds \ TicketIds : variants[t] = NoVariant
    /\ last = NoRequest
    /\ REDIS_AVAILABLE = TRUE
    /\ redis_client = << >>
    /\ NoWebhooks
    /\ listing = NoListing
    /\ roundtrip = NoRoundTrip
    /\ tasks = NoTasks

\* no response is in flight: the caller sends one request at a time
Idle == last = NoRequest

UpdateTicket ==
    /\ Idle
    /\ \E t \in TicketIds, u \in TicketUpdate, net \in NetOutcomes :
           /\ update_ticket(t, u, net)
           /\ redis_client' = CacheAfter(last', redis_client, {})
           /\ UNCHANGED <<REDIS_AVAILABLE, settings, deliveries, processed_webhook, listing, roundtrip, tasks>>

DeleteTicket ==
    /\ Idle
    /\ \E t \in TicketIds, net \in PlainOutcomes :
           /\ delete_ticket(t, net)
           /\ redis_client' = CacheAfter(last', redis_client, {})
           /\ UNCHANGED <<REDIS_AVAILABLE, settings, deliveries, processed_webhook, listing, roundtrip, tasks>>

CreateTicket ==
    /\ Idle
    /\ \E t \in TicketIds, c \in TicketCreate, net \in PlainOutcomes,
          setinv \in CallOutcomes :
           /\ create_ticket(t, c, net, setinv)
           /\ redis_client' = CacheAfter(last', redis_client, {})
           /\ UNCHANGED <<REDIS_AVAILABLE, settings, deliveries, processed_webhook, listing, roundtrip, tasks>>

ExternalSale ==
    /\ Idle
    /\ \E t \in TicketIds : Sale(t)

Next == UpdateTicket \/ DeleteTicket \/ CreateTicket \/ ExternalSale \/ Return

Spec == Init /\ [][Next]_vars

\* ---------------------------------------------------------------- specification of an event
\* the tickets of the event-level specification: visible, of one price, with
\* any declared capacity and any live inventory
EventVariantStates ==
    { v \in VariantStates : v.price = MaxPrice /\ v.metafields["is_visible"] = "true" }

\* the tickets an administrator adds to the event
EventTicketCreate ==
    { c \in TicketCreate :
        c.price = MaxPrice /\ c.is_visible /\ c.shopify_product_id = EventId }

InitEvent ==
    /\ product = [exists |-> TRUE, status |-> "DRAFT", is_featured |-> FALSE]
    /\ variants \in [VariantIds -> EventVariantStates \cup {NoVariant}]
    /\ last = NoRequest
    /\ REDIS_AVAILABLE = TRUE
    /\ redis_client = << >>
    /\ NoWebhooks
    /\ listing = NoListing
    /\ roundtrip = NoRoundTrip
    /\ tasks = NoTasks

UpdateEvent ==
    /\ Idle
    /\ \E u \in EventUpdate, net \in EventOutcomes :
           /\ update_event(u, net)
           /\ redis_client' = CacheAfter(last', redis_client, {})
           /\ UNCHANGED <<REDIS_AVAILABLE, settings, deliveries, processed_webhook, listing, roundtrip, tasks>>

PublishEvent ==
    /\ Idle
    /\ \E net \in EventOutcomes :
           /\ publish_event(net)
           /\ redis_client' = CacheAfter(last', redis_client, {})
           /\ UNCHANGED <<REDIS_AVAILABLE, settings, deliveries, processed_webhook, listing, roundtrip, tasks>>

ToggleFeatured ==
    /\ Idle
    /\ \E is_featured \in BOOLEAN, net \in EventOutcomes \ {"lookup_error"} :
           /\ toggle_featured(is_featured, net)
           /\ redis_client' = CacheAfter(last', redis_client, {})
           /\ UNCHANGED <<REDIS_AVAILABLE, settings, deliveries, processed_webhook, listing, roundtrip, tasks>>

DeleteEvent ==
    /\ Idle
    /\ \E lookup \in CallOutcomes, del \in CallOutcomes :
           /\ delete_event(lookup, del)
           /\ redis_client' = CacheAfter(last', redis_client, {})
           /\ UNCHANGED <<REDIS_AVAILABLE, settings, deliveries, processed_webhook, listing, roundtrip, tasks>>

EventCreateTicket ==
    /\ Idle
    /\ \E t \in VariantIds, c \in EventTicketCreate, setinv \in CallOutcomes :
           /\ create_ticket(t, c, "ok", setinv)
           /\ redis_client' = CacheAfter(last', redis_client, {})
           /\ UNCHANGED <<REDIS_AVAILABLE, settings, deliveries, processed_webhook, listing, roundtrip, tasks>>

EventDeleteTicket ==
    /\ Idle
    /\ \E t \in VariantIds :
           /\ delete_ticket(t, "ok")
           /\ redis_client' = CacheAfter(last', redis_client, {})
           /\ UNCHANGED <<REDIS_AVAILABLE, settings, deliveries, processed_webhook, listing, roundtrip, tasks>>

EventSale ==
    /\ Idle
    /\ \E t \in VariantIds : Sale(t)

NextEvent ==
    \/ UpdateEvent \/ PublishEvent \/ ToggleFeatured \/ DeleteEvent
    \/ EventCreateTicket \/ EventDeleteTicket \/ EventSale \/ Return

SpecEvent == InitEvent /\ [][NextEvent]_vars

\* ---------------------------------------------------------------- specification of the cache
\* the tickets of the cache specification: one price, visible, created with
\* one unit
CacheTicketCreate ==
    { c \in EventTicketCreate : c.inventory_quantity = 1 }

\* the ticket updates of the cache specification: the declared capacity
CacheTicketUpdate ==
    { [NoUpdate EXCEPT !.fields = {"inventory_quantity"}, !.inventory_quantity = q] :
        q \in 0..MaxQty }

\* the status updates of the cache specification
CacheEventUpdate ==
    { u \in EventUpdate : u.fields = {"status"} /\ u.status \in {"active", "archived"} }

InitCache ==
    /\ product = [exists |-> TRUE, status |-> "DRAFT", is_featured |-> FALSE]
    /\ variants \in [VariantIds -> {create_variant(c, "ok") : c \in CacheTicketCreate}
                                      \cup {NoVariant}]
    /\ last = NoRequest
    /\ REDIS_AVAILABLE \in BOOLEAN
    /\ redis_client = << >>
    /\ NoWebhooks
    /\ listing = NoListing
    /\ roundtrip = NoRoundTrip
    /\ tasks = NoTasks

GetEvent ==
    /\ Idle
    /\ \E net \in ReadOutcomes \ {"lookup_error"} : get_event(net, {})

GetTicketsView ==
    /\ Idle
    /\ \E net \in ReadOutcomes : get_tickets_view(net, {})

GetEvents ==
    /\ Idle
    /\ \E net \in ReadOutcomes \ {"lookup_error"} : get_events(net, {})

GetPopularEvents ==
    /\ Idle
    /\ \E net \in ReadOutcomes : get_popular_events(net, {})

CacheCreateEvent ==
    /\ Idle
    /\ \E status \in EventCreateStatus, net \in {"ok", "write_error"} :
           /\ create_event(status, net)
           /\ redis_client' = CacheAfter(last', redis_client, {})
           /\ UNCHANGED <<REDIS_AVAILABLE, settings, deliveries, processed_webhook, listing, roundtrip, tasks>>

CacheUpdateEvent ==
    /\ Idle
    /\ \E u \in CacheEventUpdate, net \in {"ok", "write_error"} :
           /\ update_event(u, net)
           /\ redis_client' = CacheAfter(last', redis_client, {})
           /\ UNCHANGED <<REDIS_AVAILABLE, settings, deliveries, processed_webhook, listing, roundtrip, tasks>>

CachePublishEvent ==
    /\ Idle
    /\ publish_event("ok")
    /\ redis_client' = CacheAfter(last', redis_client, {})
    /\ UNCHANGED <<REDIS_AVAILABLE, settings, deliveries, processed_webhook, listing, roundtrip, tasks>>

CacheToggleFeatured ==
    /\ Idle
    /\ \E is_featured \in BOOLEAN :
           /\ toggle_featured(is_featured, "ok")
           /\ redis_client' = CacheAfter(last', redis_client, {})
           /\ UNCHANGED <<REDIS_AVAILABLE, settings, deliveries, processed_webhook, listing, roundtrip, tasks>>

CacheDeleteEvent ==
    /\ Idle
    /\ delete_event("ok", "ok")
    /\ redis_client' = CacheAfter(last', redis_client, {})
    /\ UNCHANGED <<REDIS_AVAILABLE, settings, deliveries, processed_webhook, listing, roundtrip, tasks>>

CacheUpdateTicket ==
    /\ Idle
    /\ \E u \in CacheTicketUpdate, net \in {"ok", "write_error"} :
           /\ update_ticket("t1", u, net)
           /\ redis_client' = CacheAfter(last', redis_client, {})
           /\ UNCHANGED <<REDIS_AVAILABLE, settings, deliveries, processed_webhook, listing, roundtrip, tasks>>

CacheCreateTicket ==
    /\ Idle
    /\ \E t \in VariantIds, c \in CacheTicketCreate :
           /\ create_ticket(t, c, "ok", "ok")
           /\ redis_client' = CacheAfter(last', redis_client, {})
           /\ UNCHANGED <<REDIS_AVAILABLE, settings, deliveries, processed_webhook, listing, roundtrip, tasks>>

CacheDeleteTicket ==
    /\ Idle
    /\ \E t \in VariantIds :
           /\ delete_ticket(t, "ok")
           /\ redis_client' = CacheAfter(last', redis_client, {})
           /\ UNCHANGED <<REDIS_AVAILABLE, settings, deliveries, processed_webhook, listing, roundtrip, tasks>>

NextCache ==
    \/ GetEvent \/ GetTicketsView \/ GetEvents \/ GetPopularEvents
    \/ CacheCreateEvent \/ CacheUpdateEvent \/ CachePublishEvent
    \/ CacheToggleFeatured \/ CacheDeleteEvent
    \/ CacheUpdateTicket \/ CacheCreateTicket \/ CacheDeleteTicket
    \/ Return

SpecCache == InitCache /\ [][NextCache]_vars

\* ---------------------------------------------------------------- specification of a failing cache
\* the same requests with cache calls that raise inside the client
FaultyGetEvent ==
    /\ Idle
    /\ \E failing \in CacheFailures : get_event("ok", failing)

FaultyGetTicketsView ==
    /\ Idle
    /\ \E failing \in CacheFailures : get_tickets_view("ok", failing)

FaultyGetEvents ==
    /\ Idle
    /\ \E failing \in CacheFailures : get_events("ok", failing)

FaultyGetPopularEvents ==
    /\ Idle
    /\ \E failing \in CacheFailures : get_popular_events("ok", failing)

FaultyPublishEvent ==
    /\ Idle
    /\ \E failing \in CacheFailures :
           /\ publish_event("ok")
           /\ redis_client' = CacheAfter(last', redis_client, failing)
           /\ UNCHANGED <<REDIS_AVAILABLE, settings, deliveries, processed_webhook, listing, roundtrip, tasks>>

FaultyUpdateEvent ==
    /\ Idle
    /\ \E u \in CacheEventUpdate, failing \in CacheFailures :
           /\ update_event(u, "ok")
           /\ redis_client' = CacheAfter(last', redis_client, failing)
           /\ UNCHANGED <<REDIS_AVAILABLE, settings, deliveries, processed_webhook, listing, roundtrip, tasks>>

FaultyUpdateTicket ==
    /\ Idle
    /\ \E u \in CacheTicketUpdate, failing \in CacheFailures :
           /\ update_ticket("t1", u, "ok")
           /\ redis_client' = CacheAfter(last', redis_client, failing)
           /\ UNCHANGED <<REDIS_AVAILABLE, settings, deliveries, processed_webhook, listing, roundtrip, tasks>>

NextCacheFaults ==
    \/ FaultyGetEvent \/ FaultyGetTicketsView \/ FaultyGetEvents
    \/ FaultyGetPopularEvents
    \/ FaultyPublishEvent \/ FaultyUpdateEvent \/ FaultyUpdateTicket
    \/ Return

SpecCacheFaults == InitCache /\ [][NextCacheFaults]_vars

\* the cache over time: the reads fill it and the store expires its entries
InitTTL ==
    /\ product \in [exists : {TRUE}, status : {"DRAFT", "ACTIVE"}, is_featured : {FALSE}]
    /\ variants \in [VariantIds -> {create_variant(c, setinv) :
                                        c \in CacheTicketCreate, setinv \in CallOutcomes}
                                      \cup {NoVariant}]
    /\ last = NoRequest
    /\ REDIS_AVAILABLE = TRUE
    /\ redis_client = << >>
    /\ NoWebhooks
    /\ listing = NoListing
    /\ roundtrip = NoRoundTrip
    /\ tasks = NoTasks

NextTTL ==
    \/ GetEvent \/ GetTicketsView \/ GetEvents \/ GetPopularEvents
    \/ Tick \/ Return

SpecTTL == InitTTL /\ [][NextTTL]_vars

\* ================================================================ claims
\* the ticket of the last request, as the next read derives it
LastTicket == VariantData(variants[last.t])

\* the fields the specification declares locked once a ticket has sales
ClaimedLocked ==
    {"ticket_name", "ticket_type", "description", "features", "compare_at_price",
     "max_per_order"}

\* C1: once a ticket's derived sold count is > 0 it stays > 0 (and the ticket
\* stays) through every step of the admin operations and of sales, there being
\* no restock: the lock is irreversible.
C1_LockIrreversible ==
    [][\A t \in TicketIds :
          (variants[t].exists /\ VariantData(variants[t]).sold > 0)
              => (variants'[t].exists /\ VariantData(variants'[t]).sold > 0)]_vars

\* C2: an update_ticket request that carries a locked field, for a ticket the
\* handler found with sold > 0, is answered 400; the detail names a locked
\* field of the request and quotes the sold count; nothing is written and the
\* ticket still derives that sold count.
C2_LockedFieldsRejected ==
    (/\ last.op = "update_ticket"
     /\ last.sold_count > 0
     /\ last.update.fields \cap ClaimedLocked # {})
        => /\ last.status_code = 400
           /\ last.detail.rule = "locked_field"
           /\ last.detail.names \in last.update.fields \cap ClaimedLocked
           /\ last.detail.sold = last.sold_count
           /\ last.writes = {}
           /\ variants[last.t].exists
           /\ LastTicket.sold = last.sold_count

\* C2 witness: a request carrying only max_per_order was refused for a ticket
\* with sales.
C2_Witness ==
    /\ last.op = "update_ticket"
    /\ last.update.fields = {"max_per_order"}
    /\ last.sold_count > 0
    /\ last.status_code = 400

\* C3: update_ticket refuses (400, nothing written) an inventory_quantity
\* below the sold count it derived, and after every inventory_quantity it
\* wrote the re-derived capacity is >= the re-derived sold.
C3_CapacityAtLeastSold ==
    /\ (/\ last.op = "update_ticket"
        /\ "inventory_quantity" \in last.update.fields
        /\ last.update.inventory_quantity < last.sold_count)
           => (last.status_code = 400 /\ last.writes = {})
    /\ (/\ last.op = "update_ticket"
        /\ "inventory_quantity" \in last.writes)
           => LastTicket.capacity >= LastTicket.sold

\* C3 witness: an inventory_quantity below the sold count was refused with
\* the inventory rule.
C3_Witness ==
    /\ last.op = "update_ticket"
    /\ last.detail.rule = "inventory_below_sold"
    /\ last.detail.attempted < last.detail.sold
    /\ last.status_code = 400

\* C4: an update_ticket request that carries only price and/or is_visible, for
\* a ticket with sold > 0 and with the remote calls succeeding, is answered
\* 200, leaves the sold count as it was, and the revenue the next read derives
\* is sold * the new price.
C4_PriceVisibleSucceed ==
    (/\ last.op = "update_ticket"
     /\ last.sold_count > 0
     /\ last.update.fields # {}
     /\ last.update.fields \subseteq {"price", "is_visible"}
     /\ last.detail.rule # "error")
        => /\ last.status_code = 200
           /\ LastTicket.sold = last.sold_count
           /\ "price" \in last.update.fields
                 => LastTicket.revenue = last.sold_count * last.update.price

\* C5: delete_ticket deletes the variant only when the sold count it derived
\* is 0; with sold > 0 it answers 400 and the ticket still exists.
C5_DeleteOnlyUnsold ==
    /\ (last.op = "delete_ticket" /\ last.writes # {}) => last.sold_count = 0
    /\ (last.op = "delete_ticket" /\ last.sold_count > 0)
          => /\ last.status_code = 400
             /\ last.detail.rule = "ticket_has_sales"
             /\ last.writes = {}
             /\ variants[last.t].exists
             /\ LastTicket.sold = last.sold_count

\* C5 witness: a deletion was refused for a ticket with exactly one sale.
C5_Witness ==
    /\ last.op = "delete_ticket"
    /\ last.sold_count = 1
    /\ last.status_code = 400
    /\ variants[last.t].exists

Declared(variant) ==
    IF "inventory_quantity" \in DOMAIN variant.metafields
    THEN ParseInt(variant.metafields["inventory_quantity"]) ELSE 0

\* C11: for every ticket the reconciliation reports capacity = declared
\* capacity if that is > 0, else the live available quantity, and
\* sold = max(0, capacity - available); a ticket whose declared capacity is
\* absent or 0 reports sold = 0.
C11_ReconcileFormula ==
    \A t \in DOMAIN list_variants :
        LET declared == Declared(variants[t])
            available == variants[t].inventoryQuantity
            capacity == IF declared > 0 THEN declared ELSE available
            r == list_variants[t]
        IN  /\ r.capacity = capacity
            /\ r.sold = (IF capacity > available THEN capacity - available ELSE 0)
            /\ declared = 0 => r.sold = 0

\* C11 witness: update_ticket wrote a declared capacity of 0 on a ticket with
\* live inventory, and the reconciliation falls back to the available
\* quantity.
C11_Witness ==
    /\ last.op = "update_ticket"
    /\ "inventory_quantity" \in last.writes
    /\ variants[last.t].metafields["inventory_quantity"] = "0"
    /\ variants[last.t].inventoryQuantity > 0
    /\ list_variants[last.t].capacity = variants[last.t].inventoryQuantity
    /\ list_variants[last.t].sold = 0

C13_CreateSeedsInventory ==
    (last.op = "create_ticket" /\ last.status_code = 201)
        => /\ Declared(variants[last.t]) = last.update.inventory_quantity
           /\ variants[last.t].inventoryQuantity = last.update.inventory_quantity
           /\ LastTicket.sold = 0

\* ---------------------------------------------------------------- specification of the cache helpers
\* the argument lists the helpers are called with: one event id, and pages
\* that differ in the page, in the limit and in the filters
StoreArgs ==
    {[NoArgs EXCEPT !.event_id = EventId],
     [NoArgs EXCEPT !.page = "1", !.limit = "20"],
     [NoArgs EXCEPT !.page = "2", !.limit = "20"],
     [NoArgs EXCEPT !.page = "1", !.limit = "10"],
     [NoArgs EXCEPT !.page = "1", !.limit = "20",
                    !.filters = [k \in {"category", "search"} |->
                                    IF k = "category" THEN "music" ELSE "summer"]]}

\* the values stored: two of JSON types only, one holding a datetime
StoreValues ==
    {[events |-> <<[type |-> "str", text |-> "Event 1"]>>, tickets |-> << >>],
     [events |-> <<[type |-> "str", text |-> "Event 1"],
                   [type |-> "str", text |-> "Event 2"]>>, tickets |-> << >>],
     [events |-> <<[type |-> "datetime", text |-> "2026-01-01 20:00:00"]>>,
      tickets |-> << >>]}

\* the helper that reads what was stored under the arguments
Lookup(args) ==
    IF args.event_id # ""
    THEN get_cached_full_event(args.event_id)
    ELSE get_cached_events_page(args.page, args.limit, args.filters)

InitStore ==
    /\ product = [exists |-> TRUE, status |-> "DRAFT", is_featured |-> FALSE]
    /\ variants = [t \in VariantIds |-> NoVariant]
    /\ last = NoRequest
    /\ REDIS_AVAILABLE = TRUE
    /\ redis_client = << >>
    /\ NoWebhooks
    /\ listing = NoListing
    /\ roundtrip = NoRoundTrip
    /\ tasks = NoTasks

StoreSet ==
    /\ Idle
    /\ \E args \in StoreArgs, value \in StoreValues :
          /\ redis_client' =
                IF args.event_id # ""
                THEN cache_full_event(redis_client, args.event_id, value, TTL_FULL)
                ELSE cache_events_page(redis_client, args.page, args.limit,
                                       args.filters, value, TTL_LIST)
          /\ last' = [NoRequest EXCEPT
                        !.op = IF args.event_id # "" THEN "cache_full_event"
                               ELSE "cache_events_page",
                        !.cache_args = args, !.response = value]
    /\ UNCHANGED <<product, variants, REDIS_AVAILABLE, settings, deliveries, processed_webhook, listing, roundtrip, tasks>>

StoreGet ==
    /\ Idle
    /\ \E args \in StoreArgs :
          last' = [NoRequest EXCEPT
                     !.op = IF args.event_id # "" THEN "get_cached_full_event"
                            ELSE "get_cached_events_page",
                     !.cache_args = args,
                     !.hit = Lookup(args).hit,
                     !.response = Lookup(args).value]
    /\ UNCHANGED <<product, variants, REDIS_AVAILABLE, redis_client, settings,
                 deliveries, processed_webhook, listing, roundtrip, tasks>>

StoreInvalidate ==
    /\ Idle
    /\ \E event_id \in {"", EventId} :
          redis_client' = invalidate_event_caches(redis_client, event_id, {}, 0)
    /\ last' = [NoRequest EXCEPT !.op = "invalidate_event_caches"]
    /\ UNCHANGED <<product, variants, REDIS_AVAILABLE, settings, deliveries, processed_webhook, listing, roundtrip, tasks>>

NextStore == StoreSet \/ StoreGet \/ StoreInvalidate \/ Tick \/ Return

SpecStore == InitStore /\ [][NextStore]_vars

\* ---------------------------------------------------------------- specification of the webhook endpoint
InitWebhook ==
    /\ product = [exists |-> TRUE, status |-> "DRAFT", is_featured |-> FALSE]
    /\ variants = [t \in VariantIds |-> NoVariant]
    /\ last = NoRequest
    /\ REDIS_AVAILABLE = TRUE
    /\ redis_client = << >>
    /\ settings \in {[SHOPIFY_WEBHOOK_SECRET |-> s] : s \in {"", "secret"}}
    /\ deliveries = [d \in DeliveryIds |-> NoDelivery]
    /\ processed_webhook = {}
    /\ listing = NoListing
    /\ roundtrip = NoRoundTrip
    /\ tasks = NoTasks

OrderCreatedRequest ==
    /\ \E d \in DeliveryIds, webhook_id \in WebhookIds, body \in Bodies,
          x_shopify_hmac_sha256 \in HmacHeaders :
          order_created_webhook_request(d, webhook_id, body, x_shopify_hmac_sha256)
    /\ UNCHANGED <<product, variants, last, REDIS_AVAILABLE, redis_client, listing, roundtrip, tasks>>

OrderCreatedWebhook ==
    /\ \E d \in DeliveryIds : order_created_webhook(d)
    /\ UNCHANGED <<product, variants, last, REDIS_AVAILABLE, redis_client, listing, roundtrip, tasks>>

NextWebhook == OrderCreatedRequest \/ OrderCreatedWebhook

SpecWebhook == InitWebhook /\ [][NextWebhook]_vars

\* ---------------------------------------------------------------- specification of the listing loops
InitListing ==
    /\ product = [exists |-> TRUE, status |-> "DRAFT", is_featured |-> FALSE]
    /\ variants = [t \in VariantIds |-> NoVariant]
    /\ last = NoRequest
    /\ REDIS_AVAILABLE = TRUE
    /\ redis_client = << >>
    /\ NoWebhooks
    /\ listing = NoListing
    /\ roundtrip = NoRoundTrip
    /\ tasks = NoTasks

FetchAllStart ==
    /\ \E op \in {"get_events", "get_popular_events"}, filtered \in BOOLEAN :
          fetch_all_start(op, filtered)
    /\ UNCHANGED <<product, variants, last, REDIS_AVAILABLE, redis_client, settings,
                   deliveries, processed_webhook, roundtrip, tasks>>

FetchAllPage ==
    /\ \E has_next_page \in {h \in BOOLEAN : h => listing.fetches + 1 < MaxPages} :
          \E size \in PageSizes(has_next_page) :
             \E kept \in Kept(size, listing.filtered) :
                fetch_all_page(has_next_page, size, kept)
    /\ UNCHANGED <<product, variants, last, REDIS_AVAILABLE, redis_client, settings,
                   deliveries, processed_webhook, roundtrip, tasks>>

FetchAllDone ==
    /\ fetch_all_done
    /\ UNCHANGED <<product, variants, last, REDIS_AVAILABLE, redis_client, settings,
                   deliveries, processed_webhook, roundtrip, tasks>>

NextListing == FetchAllStart \/ FetchAllPage \/ FetchAllDone

SpecListing == InitListing /\ [][NextListing]_vars

\* ---------------------------------------------------------------- specification of the products
\* the remote products of the model
InitProduct ==
    /\ product = [exists |-> TRUE, status |-> "DRAFT", is_featured |-> FALSE]
    /\ variants = [t \in VariantIds |-> NoVariant]
    /\ last = NoRequest
    /\ REDIS_AVAILABLE = TRUE
    /\ redis_client = << >>
    /\ NoWebhooks
    /\ listing = NoListing
    /\ tasks = NoTasks
    /\ \E keys \in {ks \in SUBSET metafield_keys : Cardinality(ks) <= MaxMetafields},
          gallery \in Galleries,
          featured \in {"none", "true", "false"},
          status \in ProductStatus,
          descriptionHtml \in {"", "<p>"},
          tags \in {<< >>, <<"tag">>} :
          /\ "gallery_images" \notin keys => gallery = << >>
          /\ roundtrip = [NoRoundTrip EXCEPT
                !.pc = "remote",
                !.product_data =
                    [title |-> "title", descriptionHtml |-> descriptionHtml,
                     handle |-> "slug", status |-> status, tags |-> tags,
                     metafields |-> EventMetafields(keys, gallery),
                     custom |-> CustomMetafields(featured)]]

\* a read projects the remote product
FormatProductResponse ==
    /\ roundtrip.pc = "remote"
    /\ roundtrip' = [roundtrip EXCEPT
          !.pc = "projected",
          !.event = ShababcoEvent(_format_product_response(roundtrip.product_data))]
    /\ UNCHANGED <<product, variants, last, REDIS_AVAILABLE, redis_client, settings,
                   deliveries, processed_webhook, listing, tasks>>

\* the fields of the projected event are written through create_product
CreateProduct ==
    /\ roundtrip.pc = "projected"
    /\ roundtrip' = [roundtrip EXCEPT
          !.pc = "written", !.via = "create", !.outcome = "ok",
          !.written = create_product(Kwargs(roundtrip.event))]
    /\ UNCHANGED <<product, variants, last, REDIS_AVAILABLE, redis_client, settings,
                   deliveries, processed_webhook, listing, tasks>>

\* the updates of the model: the fields of the projected event, or an edit
\* of a product field and of a metafield
Updates(event) ==
    {[via |-> "update", update_data |-> UpdateData(event)],
     [via |-> "edit", update_data |-> [title |-> "title2", subtitle |-> "subtitle2"]],
     [via |-> "edit", update_data |-> [title |-> "title2"]]}

\* update_product with the fields of the projected event or with an edit
UpdateProduct ==
    /\ roundtrip.pc = "projected"
    /\ \E update \in Updates(roundtrip.event), outcome \in ProductOutcomes :
          LET result == update_product(roundtrip.product_data, update.update_data, outcome)
          IN  roundtrip' = [roundtrip EXCEPT
                !.pc = "written", !.via = update.via, !.outcome = outcome,
                !.update_data = update.update_data,
                !.raised = result.raised,
                !.written = result.product_data]
    /\ UNCHANGED <<product, variants, last, REDIS_AVAILABLE, redis_client, settings,
                   deliveries, processed_webhook, listing, tasks>>

NextProduct == FormatProductResponse \/ CreateProduct \/ UpdateProduct

SpecProduct == InitProduct /\ [][NextProduct]_vars

\* ---------------------------------------------------------------- claims about the cache
\* the last request is an event mutation that returned success
EventMutated ==
    /\ last.op \in {"create_event", "update_event", "delete_event", "publish_event",
                    "toggle_featured"}
    /\ last.status_code \in {200, 201, 204}

\* the last request is a ticket mutation that returned success
TicketMutated(ops) ==
    /\ last.op \in ops
    /\ last.status_code \in {200, 201, 204}

\* C14: when an event mutation returns success, the event's full-projection
\* key, its ticket-list key and every listing and popular-ranking key are
\* gone from the cache.
C14_EventMutationInvalidates ==
    EventMutated =>
        /\ event_full_key(EventId) \notin DOMAIN redis_client
        /\ event_tickets_key(EventId) \notin DOMAIN redis_client
        /\ \A k \in DOMAIN redis_client :
              ~(Len(k) >= 2 /\ k[1] = "events" /\ k[2] \in {"list", "popular"})

\* C14 witness: publish_event returned success with the store up, on an event
\* whose ticket has live inventory.
C14_Witness ==
    /\ last.op = "publish_event"
    /\ last.status_code = 200
    /\ last.current_status = "archived"
    /\ REDIS_AVAILABLE
    /\ redis_client = << >>

\* C15: when update_ticket on a ticket of event E returns success, the keys
\* events:full:E and tickets:event:E are absent, so the next get_event(E) and
\* get_tickets_view(E) miss.
C15_TicketUpdateInvalidates ==
    TicketMutated({"update_ticket"}) =>
        /\ <<"events", "full", EventId>> \notin DOMAIN redis_client
        /\ <<"tickets", "event", EventId>> \notin DOMAIN redis_client
        /\ ~cache_get(event_full_key(EventId), FALSE).hit
        /\ ~cache_get(event_tickets_key(EventId), FALSE).hit

\* C15 witness: update_ticket returned success after get_events had cached the
\* listing page together with the event's full projection, and of the two
\* only the listing page is left.
C15_Witness ==
    /\ TicketMutated({"update_ticket"})
    /\ REDIS_AVAILABLE
    /\ events_list_key \in DOMAIN redis_client
    /\ event_full_key(EventId) \notin DOMAIN redis_client

\* C16: when update_ticket returns success, every listing key and every
\* popular-ranking key is gone from the cache.
C16_TicketUpdateInvalidatesListings ==
    TicketMutated({"update_ticket"}) =>
        /\ events_list_key \notin DOMAIN redis_client
        /\ events_popular_key \notin DOMAIN redis_client

\* C17: when create_ticket or delete_ticket returns success on an event whose
\* ticket list was cached, the cached ticket list is a miss or holds the
\* tickets as they now are, and the event's full projection and the listing
\* page are gone.
C17_TicketCreateDeleteReflected ==
    (/\ TicketMutated({"create_ticket", "delete_ticket"})
     /\ event_tickets_key(EventId) \in DOMAIN redis_client) =>
        /\ LET cached_tickets == cache_get(event_tickets_key(EventId), FALSE)
           IN  \/ ~cached_tickets.hit
               \/ DOMAIN cached_tickets.value.tickets = {}
               \/ cached_tickets.value = TicketsBody
        /\ event_full_key(EventId) \notin DOMAIN redis_client
        /\ events_list_key \notin DOMAIN redis_client

\* C18: when a mutation returns success although one cache delete of its
\* invalidation failed, no entry left for the mutated event holds a value from
\* before the mutation.
C18_PartialInvalidationSafe ==
    (EventMutated \/ TicketMutated({"update_ticket"})) =>
        /\ event_full_key(EventId) \in DOMAIN redis_client
              => redis_client[event_full_key(EventId)].value = EventBody
        /\ event_tickets_key(EventId) \in DOMAIN redis_client
              => redis_client[event_tickets_key(EventId)].value = TicketsBody

\* the body the last read returns when nothing is cached
FreshBody ==
    CASE last.op = "get_event" -> EventBody
      [] last.op = "get_tickets_view" -> TicketsBody
      [] last.op = "get_events" -> ListBody
      [] last.op = "get_popular_events" -> PopularBody("ok")
      [] OTHER -> NoValue

\* C19: with the store down from start-up nothing is ever cached; a read
\* whose cache_get found the store down or failing misses and returns what it
\* returns on an empty cache; no request fails because of the cache.
C19_CacheAdvisory ==
    /\ ~REDIS_AVAILABLE => redis_client = << >>
    /\ (/\ last.op \in {"get_event", "get_tickets_view", "get_events",
                         "get_popular_events"}
        /\ (~REDIS_AVAILABLE \/ last.cache_get_failed))
           => /\ ~last.hit
              /\ last.status_code = 200
              /\ last.response = FreshBody
    /\ last.status_code \notin {500, 503}

\* C19 witness: get_event missed although the key was cached, its cache_get
\* having failed.
C19_Witness ==
    /\ last.op = "get_event"
    /\ last.cache_get_failed
    /\ REDIS_AVAILABLE
    /\ ~last.hit
    /\ last.status_code = 200
    /\ events_list_key \in DOMAIN redis_client

\* C20: every cache entry carries the expiry of its key family, 600 s for a
\* full projection, a ticket list and the popular ranking, 300 s for a
\* listing page, and no entry is there once that time has passed since it
\* was written.
C20_NoEntryOutlivesTTL ==
    \A k \in DOMAIN redis_client :
        /\ redis_client[k].ttl =
              (IF k[1] = "events" /\ k[2] = "list" THEN 300 ELSE 600)
        /\ redis_client[k].age < redis_client[k].ttl

\* C20 witness: the listing page get_events cached has expired while the full
\* projection it cached at the same time is still there, 300 s old.
C20_Witness ==
    /\ events_list_key \notin DOMAIN redis_client
    /\ event_full_key(EventId) \in DOMAIN redis_client
    /\ redis_client[event_full_key(EventId)].age = 300

\* a value of JSON types only
IsJson(value) ==
    \A i \in DOMAIN value.events :
        "type" \in DOMAIN value.events[i] => value.events[i].type = "str"

\* a step of cache_full_event or cache_events_page
StoreStep ==
    last = NoRequest /\ last'.op \in {"cache_full_event", "cache_events_page"}

\* a step of get_cached_full_event or get_cached_events_page
GetStep ==
    last = NoRequest /\ last'.op \in {"get_cached_full_event", "get_cached_events_page"}

\* a step leaves what is stored under every argument list but the given one
OthersKept(args) ==
    \A other \in StoreArgs \ {args} : Lookup(other)' = Lookup(other)

ValidSignature(d) ==
    /\ settings.SHOPIFY_WEBHOOK_SECRET # ""
    /\ deliveries[d].hmac_header.ascii
    /\ deliveries[d].hmac_header.secret = settings.SHOPIFY_WEBHOOK_SECRET
    /\ deliveries[d].hmac_header.data = deliveries[d].body

\* C22: a delivery is answered with success only if its signature header is
\* the keyed hash of its raw body under the shared secret; a delivery whose
\* signature is not, or whose verification raises, is answered 401 (500
\* without a secret), applies nothing and changes neither the
\* processed-webhook records nor any other state.
C22_InvalidSignatureRejected ==
    [][\A d \in DeliveryIds :
          (deliveries[d].pc = "body" /\ deliveries'[d].pc = "done") =>
              /\ deliveries'[d].status_code = 200 => ValidSignature(d)
              /\ ~ValidSignature(d) =>
                    /\ deliveries'[d].status_code \in {401, 500}
                    /\ ~deliveries'[d].applied
                    /\ processed_webhook' = processed_webhook
                    /\ UNCHANGED <<product, variants, redis_client>>
      ]_vars

\* C22 witness: a delivery whose header made the comparison raise was
\* answered 401 and applied nothing.
C22_Witness ==
    \E d \in DeliveryIds :
        /\ deliveries[d].pc = "done"
        /\ ~deliveries[d].hmac_header.ascii
        /\ deliveries[d].body.json
        /\ deliveries[d].status_code = 401
        /\ ~deliveries[d].applied

\* C23: a delivery made after a delivery of the same webhook id returned
\* success returns success without applying anything, and the id is in the
\* processed-webhook records.
C23_ReplayAppliesNothing ==
    \A d \in DeliveryIds :
        (deliveries[d].pc = "done" /\ deliveries[d].replay
         /\ ValidSignature(d) /\ deliveries[d].body.json) =>
            /\ deliveries[d].status_code = 200
            /\ ~deliveries[d].applied
            /\ deliveries[d].webhook_id \in processed_webhook

\* C24: of two deliveries of the same webhook id in flight at the same time,
\* at most one applies effects.
C24_OneConcurrentDeliveryApplies ==
    \A d1, d2 \in DeliveryIds :
        (/\ d1 # d2
         /\ deliveries[d1].webhook_id = deliveries[d2].webhook_id
         /\ ~deliveries[d1].replay /\ ~deliveries[d2].replay) =>
            ~(deliveries[d1].applied /\ deliveries[d2].applied)

\* ---------------------------------------------------------------- claims about listings
\* C25: the list a fetch-all-pages loop accumulates never holds more than 500
\* events, and the loop fetches at most 500 / 50 = 10 pages.
C25_FetchAllCapped ==
    /\ listing.all_events <= 500
    /\ listing.fetches <= 10

\* C27: after toggle_featured(E, v) succeeds the event it returns and a read
\* of E report is_featured = v, and the featured filter of get_events keeps
\* exactly the events that are featured.
C27_FeaturedReported ==
    (last.op = "toggle_featured" /\ last.status_code = 200)
        => /\ last.response.events[1].is_featured = last.is_featured
           /\ ShababcoEvent(EventProjection).is_featured = last.is_featured
           /\ Len(featured_filter(ListBody.events, TRUE))
                = IF last.is_featured THEN 1 ELSE 0

\* the last request was an update_ticket that carried native fields and
\* metafields, whose core mutation was applied and whose metafieldsSet was
\* not, on a ticket the response schema accepts
ExtensionWriteFailed ==
    /\ last.op = "update_ticket"
    /\ variant_bulk_input(last.update) # {}
    /\ metafields_to_update(last.update) # {}
    /\ last.writes = variant_bulk_input(last.update)
    /\ TicketResponse(_format_variant_response(variants[last.t]))

\* C28: when the core mutation of an update succeeds and the metafieldsSet
\* that follows fails, by userErrors or by an exception, the core mutation
\* stays and the request answers with success.
C28_PartialFailureSucceeds ==
    ExtensionWriteFailed
        => /\ last.status_code = 200
           /\ "price" \in last.update.fields
                => variants[last.t].price = last.update.price

\* the last request broke a rule of the tickets: a locked field or an
\* inventory below the sold count (update_ticket), a ticket with sales
\* (delete_ticket), a product id in the body that is not the one of the URL
\* (create_ticket on an event that exists and was read)
TicketRuleViolated ==
    \/ /\ last.op = "update_ticket"
       /\ update_ticket_validation(last.update, last.sold_count) # NoDetail
    \/ /\ last.op = "delete_ticket"
       /\ last.sold_count > 0
    \/ /\ last.op = "create_ticket"
       /\ product.exists
       /\ last.detail.rule # "error"
       /\ last.update.shopify_product_id # EventId

\* C29: a request that breaks a rule is answered 400 with a message that
\* names the rule.
C29_RuleRejectionsAre400 ==
    TicketRuleViolated => (last.status_code = 400 /\ last.detail.names # "")

\* the operations that look their parent event up at the remote
ParentOps ==
    {"get_event", "update_event", "publish_event", "toggle_featured",
     "delete_event", "create_ticket", "update_ticket", "delete_ticket",
     "get_tickets_view"}

\* a request of ParentOps is handled while the remote has no such event: the
\* cache did not answer it and no remote call failed in transport
UnresolvedParent ==
    /\ last = NoRequest
    /\ last'.op \in ParentOps
    /\ ~product.exists
    /\ ~last'.hit
    /\ last'.detail.rule # "error"

\* C30: a request whose parent event the remote does not have is answered
\* 404 and changes nothing at the remote.
C30_UnresolvedParentIs404 ==
    [][UnresolvedParent
        => (last'.status_code = 404 /\ product' = product /\ variants' = variants)]_vars

\* ---------------------------------------------------------------- claims about products
\* the fields of an event the round trip is about
RoundTripFields == metafield_keys \cup core_keys \cup {"is_featured"}

\* the event a read of the written product gives
Reprojected == ShababcoEvent(_format_product_response(roundtrip.written))

\* C26: writing the fields of a projected event through create_product or
\* update_product and projecting the product that results gives every field
\* the value the projected event had.
C26_RoundTripPreserves ==
    (roundtrip.pc = "written" /\ roundtrip.via \in {"create", "update"}
        /\ roundtrip.outcome = "ok")
        => \A field \in RoundTripFields : Reprojected[field] = roundtrip.event[field]

\* ---------------------------------------------------------------- claims about events
\* the tickets of the event that exist at the remote
ExistingTickets == {t \in VariantIds : variants[t].exists}

\* the sold counts of the event's tickets, summed over the remote's state
SummedSold == SumOver([t \in VariantIds |-> VariantData(variants[t]).sold], ExistingTickets)

\* C6: delete_event issues the remote product deletion only if the summed
\* sold count of the event's tickets is 0, whatever the ticket lookup returned
C6_DeleteOnlyUnsold ==
    [][(last'.op = "delete_event" /\ "productDelete" \in last'.writes)
          => SummedSold = 0]_vars

\* the transitions the lifecycle table allows
AllowedTransitions ==
    {<<"draft", "active">>, <<"active", "archived">>, <<"archived", "active">>}

\* the action the refusal of a forbidden transition names
RequiredAction(from, to) ==
    CASE from = "active" /\ to = "draft" -> "Use archive instead"
      [] from = "archived" /\ to = "draft" -> "Use publish endpoint"
      [] from = "draft" /\ to = "archived" -> "Publish it first"
      [] OTHER -> "none named"

\* update_event got as far as comparing the current and the requested status
StatusChangeRequested ==
    /\ last.op = "update_event"
    /\ "status" \in last.update.fields
    /\ last.current_status \in {"draft", "active", "archived"}

\* the transition table refused the last request
TableRefused ==
    /\ last.status_code = 400
    /\ last.detail.rule = "forbidden_transition"
    /\ last.writes = {}

\* C7 as stated: of the nine (from, to) pairs exactly draft->active,
\* active->archived and archived->active pass the transition table of
\* update_event, and every other pair, the self-pairs included, is refused
C7_NinePairs ==
    StatusChangeRequested =>
        LET from == last.current_status
            to == Lower(last.new_status)
        IN  IF <<from, to>> \in AllowedTransitions
            THEN ~TableRefused
            ELSE TableRefused

\* C7 amended: of the six pairs with from # to, the three allowed ones pass
\* the transition table and the three others are refused with a detail naming
\* the required action; a self-pair is never refused by the table
C7_SixPairs ==
    StatusChangeRequested =>
        LET from == last.current_status
            to == Lower(last.new_status)
        IN  IF <<from, to>> \in AllowedTransitions \/ from = to
            THEN /\ ~TableRefused
                 /\ last.status_code = 200 => product.status = Upper(to)
            ELSE /\ TableRefused
                 /\ last.detail.names = RequiredAction(from, to)

C7_Witness ==
    /\ StatusChangeRequested
    /\ last.current_status = "draft"
    /\ Lower(last.new_status) = "archived"
    /\ TableRefused

\* some ticket of the event can be bought
SomeAvailable == \E t \in ExistingTickets : variants[t].inventoryQuantity > 0

\* C8: the status of an event becomes active, from draft or from archived,
\* only if the event has a ticket with available > 0 when the request is
\* validated; a request for active on an event without one is rejected and
\* leaves the event as it was
C8_ActiveNeedsInventory ==
    [][/\ (product'.status = "ACTIVE" /\ product.status # "ACTIVE") => SomeAvailable
       /\ (/\ last'.op \in {"update_event", "publish_event"}
           /\ Lower(last'.new_status) = "active"
           /\ last'.current_status \in {"draft", "archived"}
           /\ ~SomeAvailable)
          => (last'.status_code \in {400, 500} /\ product' = product)]_vars

C8_Witness ==
    /\ last.op \in {"update_event", "publish_event"}
    /\ last.current_status = "archived"
    /\ last.status_code = 200
    /\ product.status = "ACTIVE"

\* C9: toggle_featured(true) succeeds only on an active event; on a draft or
\* archived event it is rejected and is_featured is not written
C9_FeatureNeedsActive ==
    [][(last'.op = "toggle_featured" /\ last'.is_featured /\ product.exists)
          => /\ last'.status_code = 200 => Lower(product.status) = "active"
             /\ Lower(product.status) \in {"draft", "archived"}
                   => /\ last'.status_code \in {400, 500}
                      /\ last'.writes = {}
                      /\ product' = product]_vars

C9_Witness ==
    /\ last.op = "toggle_featured"
    /\ last.is_featured
    /\ last.current_status = "archived"
    /\ last.status_code = 400
    /\ last.detail.rule = "not_active"
    /\ ~product.is_featured

\* ---------------------------------------------------------------- claims about failures
\* C31: a request one of whose gateway calls failed (rate limit, time-out,
\* connection error: ShopifyAPIError out of execute_query) is answered 503.
C31_GatewayFailureIs503 ==
    last.detail.rule = "error" => last.status_code = 503

\* ---------------------------------------------------------------- specification of concurrent requests
\* the event updates of concurrent requests: a status, or the title alone
ConcurrentEventUpdate ==
    { u \in EventUpdate : u.fields \in {{"status"}, {"title"}} /\ u.status # "ACTIVE" }

\* the ticket updates of concurrent requests: a locked field, or the capacity
ConcurrentTicketUpdate ==
    {[NoUpdate EXCEPT !.fields = {"ticket_name"}]} \cup
    { u \in CacheTicketUpdate : u.inventory_quantity = MaxQty }

InitConcurrent ==
    /\ product \in [exists : {TRUE}, status : {"DRAFT", "ACTIVE", "ARCHIVED"},
                    is_featured : {FALSE}]
    /\ variants \in [VariantIds -> {create_variant(c, "ok") : c \in CacheTicketCreate}
                                      \cup {NoVariant}]
    /\ last = NoRequest
    /\ REDIS_AVAILABLE = TRUE
    /\ redis_client = << >>
    /\ NoWebhooks
    /\ listing = NoListing
    /\ roundtrip = NoRoundTrip
    /\ tasks = NoTasks

\* what a request step leaves alone
ConcurrentFrame ==
    UNCHANGED <<last, REDIS_AVAILABLE, settings, deliveries, processed_webhook,
                listing, roundtrip>>

ArriveEvent ==
    /\ \E r \in RequestIds, u \in ConcurrentEventUpdate :
          task_start(r, "update_event", "", u, NoUpdate)
    /\ ConcurrentFrame

ArrivePublish ==
    /\ \E r \in RequestIds :
          task_start(r, "publish_event", "", NoTask.event_data, NoUpdate)
    /\ ConcurrentFrame

ArriveTicket ==
    /\ \E r \in RequestIds, t \in VariantIds, u \in ConcurrentTicketUpdate :
          task_start(r, "update_ticket", t, NoTask.event_data, u)
    /\ ConcurrentFrame

ArriveDelete ==
    /\ \E r \in RequestIds, t \in VariantIds :
          task_start(r, "delete_ticket", t, NoTask.event_data, NoUpdate)
    /\ ConcurrentFrame

ArriveRead ==
    /\ \E r \in RequestIds, op \in ReadOps :
          task_start(r, op, "", NoTask.event_data, NoUpdate)
    /\ ConcurrentFrame

StepFetch == (\E r \in RequestIds : task_fetch(r)) /\ ConcurrentFrame

StepValidate == (\E r \in RequestIds : task_validate(r)) /\ ConcurrentFrame

StepMutate == (\E r \in RequestIds : task_mutate(r)) /\ ConcurrentFrame

StepFinish == (\E r \in RequestIds : task_finish(r)) /\ ConcurrentFrame

StepStore == (\E r \in RequestIds : task_store(r)) /\ ConcurrentFrame

NextConcurrent ==
    \/ ArriveEvent
    \/ ArrivePublish
    \/ ArriveTicket
    \/ ArriveDelete
    \/ ArriveRead
    \/ StepFetch
    \/ StepValidate
    \/ StepMutate
    \/ StepFinish
    \/ StepStore
    \/ ExternalSale

SpecConcurrent == InitConcurrent /\ [][NextConcurrent]_vars

\* ---------------------------------------------------------------- claims about concurrent requests
\* C32: an event that has become active or archived never has status draft
\* again, whatever the interleaving of update_event and publish_event
C32_NeverDraftAgain ==
    [][({tasks[r].op : r \in RequestIds} = {"update_event", "publish_event"}
          /\ Lower(product.status) \in {"active", "archived"})
          => Lower(product'.status) # "draft"]_vars

\* the step in which the remote applies the write of request r
WriteApplied(r) ==
    /\ tasks[r].pc = "mutate"
    /\ tasks'[r].pc \in {"finish", "done"}
    /\ tasks'[r].writes # {}

\* C33: whatever the interleaving of update_ticket and delete_ticket with an
\* external sale, a locked field is written, and a ticket is deleted, only
\* when the sold count of the ticket is 0 at the moment the write is applied
C33_LockedWriteOnlyUnsold ==
    [][\A r \in RequestIds :
          (/\ WriteApplied(r)
           /\ \/ tasks[r].op = "delete_ticket"
              \/ tasks[r].op = "update_ticket" /\ FirstLocked(tasks[r].ticket_data) # "")
          => get_variant(tasks[r].t).sold = 0]_vars

\* request r was a read-through request that missed the cache and request m
\* a mutation that changed the status of the event, and both have returned
MissAndMutationReturned(r, m) ==
    /\ tasks[r].op \in ReadOps
    /\ tasks[r].pc = "done"
    /\ tasks[r].status_code = 200
    /\ ~tasks[r].hit
    /\ tasks[m].op \in {"update_event", "publish_event"}
    /\ tasks[m].pc = "done"
    /\ tasks[m].status_code = 200
    /\ "status" \in tasks[m].writes

\* C34: once a read-through request that missed the cache and a concurrent
\* successful mutation have both returned, no cache entry of the event holds
\* the value from before the mutation (here: the status from before it)
C34_NoStaleEntryAfterBoth ==
    \A r \in RequestIds, m \in RequestIds :
        MissAndMutationReturned(r, m) =>
            \A k \in DOMAIN redis_client :
                \A i \in DOMAIN cache_get(k, FALSE).value.events :
                    cache_get(k, FALSE).value.events[i].status = Lower(product.status)

\* ---------------------------------------------------------------- specification of failing mutations over a filled cache
\* the read-through handlers fill the cache; update_event, publish_event and
\* update_ticket, the handlers that invalidate when they succeed, run with
\* every outcome of their remote calls
\* the ticket updates of this specification: the price, a core field, with the
\* declared capacity, a metafield, at the value the tickets were created with
FailingTicketUpdate ==
    { u \in TicketUpdate : u.fields = {"price", "inventory_quantity"}
                              /\ u.inventory_quantity = 1 }

FailingUpdateEvent ==
    /\ Idle
    /\ \E u \in CacheEventUpdate, net \in EventOutcomes :
           /\ update_event(u, net)
           /\ redis_client' = CacheAfter(last', redis_client, {})
           /\ UNCHANGED <<REDIS_AVAILABLE, settings, deliveries, processed_webhook,
                          listing, roundtrip, tasks>>

FailingPublishEvent ==
    /\ Idle
    /\ \E net \in EventOutcomes :
           /\ publish_event(net)
           /\ redis_client' = CacheAfter(last', redis_client, {})
           /\ UNCHANGED <<REDIS_AVAILABLE, settings, deliveries, processed_webhook,
                          listing, roundtrip, tasks>>

FailingUpdateTicket ==
    /\ Idle
    /\ \E u \in FailingTicketUpdate, net \in NetOutcomes :
           /\ update_ticket("t1", u, net)
           /\ redis_client' = CacheAfter(last', redis_client, {})
           /\ UNCHANGED <<REDIS_AVAILABLE, settings, deliveries, processed_webhook,
                          listing, roundtrip, tasks>>

NextCacheErrors ==
    \/ GetEvent \/ GetTicketsView \/ GetEvents \/ GetPopularEvents
    \/ FailingUpdateEvent \/ FailingPublishEvent \/ FailingUpdateTicket
    \/ Return

SpecCacheErrors == InitCache /\ [][NextCacheErrors]_vars

\* C35: a request that changed the remote state of the event or of one of its
\* tickets has invalidated the cache entries of the event when it completes,
\* also when it ends in an error after the change
C35_ChangeInvalidates ==
    (last.op \in {"update_event", "publish_event", "update_ticket"} /\ last.writes # {})
        => /\ event_full_key(EventId) \notin DOMAIN redis_client
           /\ event_tickets_key(EventId) \notin DOMAIN redis_client

\* ---------------------------------------------------------------- claims about the states of an event
\* C36: in every state the admin operations reach, an event whose is_featured
\* is true has status active
C36_FeaturedIsActive ==
    (product.exists /\ product.is_featured) => Lower(product.status) = "active"

\* C37: in every state the admin operations reach, an event whose status is
\* active has at least one ticket
C37_ActiveHasTicket ==
    (product.exists /\ Lower(product.status) = "active")
        => DOMAIN list_variants # {}

\* ---------------------------------------------------------------- claims about the derived figures
\* the step is an accepted update_ticket of ticket t that raises its
\* inventory_quantity above the capacity the ticket had
RaisesInventory(t) ==
    /\ last = NoRequest
    /\ last'.op = "update_ticket"
    /\ last'.t = t
    /\ last'.status_code = 200
    /\ "inventory_quantity" \in last'.update.fields
    /\ last'.update.inventory_quantity > get_variant(t).capacity

\* C38: an accepted update_ticket that raises inventory_quantity leaves the
\* sold count and the revenue of the ticket as they were
C38_RaiseKeepsSold ==
    [][\A t \in VariantIds :
          (RaisesInventory(t) /\ "price" \notin last'.update.fields)
          => /\ get_variant(t)'.sold = get_variant(t).sold
             /\ get_variant(t)'.revenue = get_variant(t).revenue]_vars

\* ---------------------------------------------------------------- specification of the listing loops against one remote catalog
\* the remote catalog of one listing request: its pages (a page followed by
\* another is full), the products of its last page, how many products of a
\* page pass the filters of get_events, and whether the pageInfo of a page
\* that has a next page comes with endCursor null
Catalogs ==
    [pages : 1..MaxPages, last_size : {0, 1, PageLimit},
     keep : {"none", "one", "all"}, cursorless : BOOLEAN]

\* the loop of no request, with the position of its cursor (0 is None)
NoCursorListing ==
    [op |-> "none", pc |-> "idle", filtered |-> FALSE, all_events |-> 0,
     cursor |-> 0,
     catalog |-> [pages |-> 1, last_size |-> 0, keep |-> "all", cursorless |-> FALSE]]

\* list_products(limit=50, query, cursor): the page after the cursor, the
\* first page for cursor None
list_products(catalog, cursor) ==
    LET page == cursor + 1
        has_next_page == page < catalog.pages
    IN  [size |-> IF has_next_page THEN PageLimit ELSE catalog.last_size,
         has_next_page |-> has_next_page,
         end_cursor |-> IF has_next_page /\ catalog.cursorless THEN 0 ELSE page]

\* the products of a batch left by the category and featured filters
batch_events(size, filtered, keep) ==
    IF ~filtered \/ keep = "all" THEN size
    ELSE IF keep = "one" /\ size > 0 THEN 1
    ELSE 0

\* the request reaches the loop: all_events = [], cursor = None
cursor_loop_start(op, filtered, catalog) ==
    /\ listing.pc = "idle"
    /\ op = "get_popular_events" => (~filtered /\ catalog.keep = "all")
    /\ ~filtered => catalog.keep = "all"
    /\ listing' = [NoCursorListing EXCEPT !.op = op, !.pc = "loop",
                                          !.filtered = filtered, !.catalog = catalog]

\* while True: the loop sends list_products and awaits the response
cursor_loop_send ==
    /\ listing.pc = "loop"
    /\ listing' = [listing EXCEPT !.pc = "await"]

\* the response arrives: filter, extend, break on the last page, take the
\* end cursor, break at the safety limit
cursor_loop_receive ==
    LET result == list_products(listing.catalog, listing.cursor)
        extended == listing.all_events
                      + batch_events(result.size, listing.filtered, listing.catalog.keep)
    IN  /\ listing.pc = "await"
        /\ listing' =
              IF ~result.has_next_page
              THEN [listing EXCEPT !.all_events = extended, !.pc = "done"]
              ELSE [listing EXCEPT !.all_events = extended,
                                   !.cursor = result.end_cursor,
                                   !.pc = IF extended >= SafetyLimit THEN "done"
                                          ELSE "loop"]

InitCursorListing ==
    /\ product = [exists |-> TRUE, status |-> "DRAFT", is_featured |-> FALSE]
    /\ variants = [t \in VariantIds |-> NoVariant]
    /\ last = NoRequest
    /\ REDIS_AVAILABLE = TRUE
    /\ redis_client = << >>
    /\ NoWebhooks
    /\ listing = NoCursorListing
    /\ roundtrip = NoRoundTrip
    /\ tasks = NoTasks

CursorLoopStart ==
    /\ \E op \in {"get_events", "get_popular_events"}, filtered \in BOOLEAN,
          catalog \in Catalogs :
          cursor_loop_start(op, filtered, catalog)
    /\ UNCHANGED <<product, variants, last, REDIS_AVAILABLE, redis_client, settings,
                   deliveries, processed_webhook, roundtrip, tasks>>

CursorLoopSend ==
    /\ cursor_loop_send
    /\ UNCHANGED <<product, variants, last, REDIS_AVAILABLE, redis_client, settings,
                   deliveries, processed_webhook, roundtrip, tasks>>

CursorLoopReceive ==
    /\ cursor_loop_receive
    /\ UNCHANGED <<product, variants, last, REDIS_AVAILABLE, redis_client, settings,
                   deliveries, processed_webhook, roundtrip, tasks>>

NextCursorListing == CursorLoopStart \/ CursorLoopSend \/ CursorLoopReceive

\* the event loop resumes the handler whenever it can go on: the request is
\* sent, and its response, which the remote always gives, is received
SpecCursorListing ==
    /\ InitCursorListing
    /\ [][NextCursorListing]_vars
    /\ WF_vars(CursorLoopSend)
    /\ WF_vars(CursorLoopReceive)

\* C39: the fetch-all-pages loops of get_events and get_popular_events
\* terminate, whatever the remote answers
C39_LoopsTerminate ==
    (listing.pc = "loop") ~> (listing.pc = "done")

\* ---------------------------------------------------------------- pagination of get_events
\* the largest page number a request asks for in the model
MaxPageNo == 3

\* the most events the loop has accumulated in the model
MaxCount == 55

\* limit: int = Query(default=20, ge=1, le=50)
LimitMax == 50

\* all_events[start:stop] of Python for 0 <= start <= stop: the elements from
\* position start + 1 to position stop, as far as the list goes
Slice(seq, start, stop) ==
    LET stop_clamped == IF stop > Len(seq) THEN Len(seq) ELSE stop
    IN  IF start >= stop_clamped THEN << >>
        ELSE SubSeq(seq, start + 1, stop_clamped)

\* the pagination of get_events: total_pages, the adjusted page, the slice of
\* the page and PaginationInfo
paginate(all_events, page_asked, limit) ==
    LET total_count == Len(all_events)
        pages_needed == (total_count + limit - 1) \div limit
        total_pages == IF pages_needed > 1 THEN pages_needed ELSE 1
        page == IF page_asked > total_pages /\ total_count > 0
                THEN total_pages ELSE page_asked
        offset == (page - 1) * limit
    IN  [events |-> Slice(all_events, offset, offset + limit),
         pagination |-> [current_page |-> page, total_pages |-> total_pages,
                         total_count |-> total_count, per_page |-> limit,
                         has_next |-> page < total_pages,
                         has_previous |-> page > 1]]

\* the request before its pagination is computed
NoPagination ==
    [events |-> << >>,
     pagination |-> [current_page |-> 0, total_pages |-> 0, total_count |-> 0,
                     per_page |-> 0, has_next |-> FALSE, has_previous |-> FALSE]]

InitPagination ==
    /\ product = [exists |-> TRUE, status |-> "DRAFT", is_featured |-> FALSE]
    /\ variants = [t \in VariantIds |-> NoVariant]
    /\ last = NoRequest
    /\ REDIS_AVAILABLE = TRUE
    /\ redis_client = << >>
    /\ NoWebhooks
    /\ listing \in [pc : {"sorted"}, page : 1..MaxPageNo, limit : 1..LimitMax,
                    all_events : {[i \in 1..n |-> i] : n \in 0..MaxCount},
                    response : {NoPagination}]
    /\ roundtrip = NoRoundTrip
    /\ tasks = NoTasks

\* get_events after its loop and sort: the page is computed
Paginate ==
    /\ listing.pc = "sorted"
    /\ listing' = [listing EXCEPT
          !.pc = "paginated",
          !.response = paginate(listing.all_events, listing.page, listing.limit)]
    /\ UNCHANGED <<product, variants, last, REDIS_AVAILABLE, redis_client, settings,
                   deliveries, processed_webhook, roundtrip, tasks>>

NextPagination == Paginate

SpecPagination == InitPagination /\ [][NextPagination]_vars

\* C40: every get_events response has 1 <= current_page <= total_pages,
\* has_next = (current_page < total_pages), has_previous = (current_page > 1)
\* and at most per_page events
C40_PaginationConsistent ==
    listing.pc = "paginated" =>
        LET p == listing.response.pagination
        IN  /\ 1 <= p.current_page
            /\ p.current_page <= p.total_pages
            /\ p.has_next = (p.current_page < p.total_pages)
            /\ p.has_previous = (p.current_page > 1)
            /\ Len(listing.response.events) <= p.per_page

====
